---------------------------- MODULE Spec2Model ----------------------------
(***************************************************************************)
(* A model of ghostify2 (Tumblr -> Ghost migration): the post transformer  *)
(* (src/src/transform/formatPost.ts, latest draft, lines 418-826) and the  *)
(* export assembler (src/src/export/jsonWriter.ts, latest draft, lines     *)
(* 218-538), the fetch loop (src/src/api/tumblr.ts, lines 117-210) and the *)
(* command that runs them in turn (src/src/commands/migrate.ts).           *)
(*                                                                         *)
(* Strings are sequences of characters.  A character is a TLA+ string: an  *)
(* ASCII character stands for itself, a character outside ASCII is written *)
(* by its code point ("U+2014").  Null is the JavaScript null / undefined  *)
(* of an absent field: a sequence that is no string, because its only      *)
(* element is no character.                                                *)
(***************************************************************************)
EXTENDS Integers, Sequences, FiniteSets, TLC

VARIABLES
    post,         \* SpecTitle: the TumblrPost handed to transform
    result,       \* SpecTitle: the GhostPost transform returned (Null before)
    tpc,          \* SpecTitle: "start" | "done" | "failed" ("idle" elsewhere)
    galleryRows,  \* SpecGallery: the rows found by the scan, images per row
    ghostRows,    \* SpecGallery: the Ghost rows emitted so far
    currentRow,   \* SpecGallery: the running buffer
    rowIdx,       \* SpecGallery: the next Tumblr row of the for-loop
    gpc,          \* SpecGallery: "loop" | "leftover" | "done" ("idle" elsewhere)
    tumblrPosts,  \* SpecExport: the posts Migrate.run fetched and transformed
    posts,        \* SpecExport: the GhostPost[] handed to exportToFile
    authorConfig, \* SpecExport: <<config>>, the exporter's AuthorConfig, <<>> if none
    exportData,   \* SpecExport: the assembled GhostExport (Null before)
    outFile,      \* SpecExport: what the output path holds
    thrown,       \* SpecExport: the message of the error exportToFile threw
    epc,          \* SpecExport: "start" | "export" | "ensureDir" | "writeJson"
                  \*             | "done" | "failed" ("idle" elsewhere)
    entityText,   \* SpecDecode: the string handed to decodeHtmlEntities
    decoded,      \* SpecDecode: what each successive decoding returned
    dpc,          \* SpecDecode: "start" | "done" ("idle" elsewhere)
    fetchLimit,   \* SpecFetch: options.limit of fetchAllPosts
    fetchedPosts, \* SpecFetch: `posts`, the TumblrPost[] fetchAllPosts builds
    totalFetched, \* SpecFetch: the running count of fetchAllPosts
    before,       \* SpecFetch: the cursor of the next request, {} if undefined
    requests,     \* SpecFetch: every request issued so far and its outcome
    fpc,          \* SpecFetch: "loop" | "await" | "delay" | "returned"
                  \*             | "createDirs" | "export" | "failed" ("idle" elsewhere)
    blogName,     \* SpecName: args.blog || config.blogName, Null if neither is set
    flagsOutput,  \* SpecName: flags.output, Null when --output is not given
    outputPath,   \* SpecName: the path Migrate.run writes to, Null before it is chosen
    npc,          \* SpecName: "start" | "chosen" | "exited" ("idle" elsewhere)
    typedPost,    \* SpecEscape: the quote, link, chat or answer post handed to its handler
    fragment,     \* SpecEscape: the markup the handler returned, Null before
    xpc           \* SpecEscape: "start" | "done" ("idle" elsewhere)

titleVars   == <<post, result, tpc>>
galleryVars == <<galleryRows, ghostRows, currentRow, rowIdx, gpc>>
exportVars  == <<tumblrPosts, posts, authorConfig, exportData, outFile, thrown, epc>>
decodeVars  == <<entityText, decoded, dpc>>
fetchVars   == <<fetchLimit, fetchedPosts, totalFetched, before, requests, fpc>>
nameVars    == <<blogName, flagsOutput, outputPath, npc>>
escapeVars  == <<typedPost, fragment, xpc>>

vars == <<titleVars, galleryVars, exportVars, decodeVars, fetchVars, nameVars,
         escapeVars>>

Null == <<"NULL">>

\* JavaScript truthiness of a string-or-absent value: !!s
Truthy(s) == s # Null /\ s # <<>>

-----------------------------------------------------------------------------
(* Characters                                                              *)

LowerAlpha == <<"a","b","c","d","e","f","g","h","i","j","k","l","m",
                "n","o","p","q","r","s","t","u","v","w","x","y","z">>
UpperAlpha == <<"A","B","C","D","E","F","G","H","I","J","K","L","M",
                "N","O","P","Q","R","S","T","U","V","W","X","Y","Z">>
DigitChars == <<"0","1","2","3","4","5","6","7","8","9">>

Range(f) == {f[i] : i \in DOMAIN f}

Lowers == Range(LowerAlpha)
Uppers == Range(UpperAlpha)
Digits == Range(DigitChars)

\* \s of a JavaScript regular expression, and what String.prototype.trim removes
Spaces == {" ", "\n", "\t", "U+00A0"}
IsSpace(c) == c \in Spaces
\* \w of a JavaScript regular expression
WordChars == Lowers \cup Uppers \cup Digits \cup {"_"}
IsWordChar(c) == c \in WordChars
\* [a-zA-Z0-9#], the body of an entity reference
IsEntityChar(c) == c \in Lowers \cup Uppers \cup Digits \cup {"#"}
\* [.!?]
IsTerminator(c) == c \in {".", "!", "?"}

ToLowerChar(c) ==
    IF c \in Uppers THEN LowerAlpha[CHOOSE i \in 1..26 : UpperAlpha[i] = c] ELSE c
ToUpperChar(c) ==
    IF c \in Lowers THEN UpperAlpha[CHOOSE i \in 1..26 : LowerAlpha[i] = c] ELSE c

-----------------------------------------------------------------------------
(* String primitives of the JavaScript runtime                             *)

SetMin(S) == CHOOSE x \in S : \A y \in S : x <= y
SetMax(S) == CHOOSE x \in S : \A y \in S : x >= y

\* the subsequence of s at the positions in keep, position i mapped to map[i]
PickMap(s, keep, map) ==
    LET idx  == [i \in 1..Len(s) |-> i]
        kept == SelectSeq(idx, LAMBDA i : i \in keep)
    IN  [k \in 1..Len(kept) |-> map[kept[k]]]

\* String.prototype.trim
Trim(s) ==
    LET solid == {i \in 1..Len(s) : ~IsSpace(s[i])}
    IN  IF solid = {} THEN <<>> ELSE SubSeq(s, SetMin(solid), SetMax(solid))

\* s.replace(/[class]+/g, r): every maximal run of characters of the class
\* becomes one r
ReplaceRuns(s, class, r) ==
    PickMap(s, {i \in 1..Len(s) : s[i] \notin class \/ i = 1 \/ s[i-1] \notin class},
               [i \in 1..Len(s) |-> IF s[i] \in class THEN r ELSE s[i]])

\* s.replace(/[^class]/g, ''): the characters outside the class are removed
RemoveChars(s, class) == SelectSeq(s, LAMBDA c : c \in class)

\* s.toLowerCase()
ToLowerCase(s) == [i \in 1..Len(s) |-> ToLowerChar(s[i])]

\* s.split(/\s+/): the pieces between the maximal whitespace runs; a run at
\* either end leaves an empty piece there, and "" splits to [""]
SplitWs(s) ==
    LET n      == Len(s)
        \* a piece starts at 1 and after the last character of every run
        starts == {1} \cup {i \in 2..n+1 : IsSpace(s[i-1]) /\ (i = n+1 \/ ~IsSpace(s[i]))}
        EndOf(a) == IF \E j \in a..n : IsSpace(s[j])
                    THEN SetMin({j \in a..n : IsSpace(s[j])}) - 1
                    ELSE n
        order  == PickMap([i \in 1..n+1 |-> i], starts, [i \in 1..n+1 |-> i])
    IN  [k \in 1..Len(order) |-> SubSeq(s, order[k], EndOf(order[k]))]

\* words.join(' ')
RECURSIVE JoinSpace(_)
JoinSpace(words) ==
    IF words = <<>> THEN <<>>
    ELSE IF Len(words) = 1 THEN words[1]
    ELSE words[1] \o <<" ">> \o JoinSpace(Tail(words))

\* the number of occurrences of character c
Count(s, c) == Cardinality({i \in 1..Len(s) : s[i] = c})

RECURSIVE Flatten(_)
Flatten(ss) == IF ss = <<>> THEN <<>> ELSE Head(ss) \o Flatten(Tail(ss))

-----------------------------------------------------------------------------
(* Date.prototype.toISOString of new Date(timestamp * 1000)                *)

Pad2(n) == <<DigitChars[(n \div 10) + 1], DigitChars[(n % 10) + 1]>>
Pad4(n) == Pad2(n \div 100) \o Pad2(n % 100)

\* the proleptic Gregorian date of a day number counted from 1970-01-01
CivilFromDays(days) ==
    LET z   == days + 719468
        era == z \div 146097
        doe == z - era * 146097
        yoe == (doe - doe \div 1460 + doe \div 36524 - doe \div 146096) \div 365
        doy == doe - (365 * yoe + yoe \div 4 - yoe \div 100)
        mp  == (5 * doy + 2) \div 153
        d   == doy - (153 * mp + 2) \div 5 + 1
        m   == IF mp < 10 THEN mp + 3 ELSE mp - 9
        y   == yoe + era * 400 + (IF m <= 2 THEN 1 ELSE 0)
    IN  [year |-> y, month |-> m, day |-> d]

\* toISOString().split('T')[0]: the UTC calendar date, YYYY-MM-DD
IsoDate(timestamp) ==
    LET c == CivilFromDays(timestamp \div 86400)
    IN  Pad4(c.year) \o <<"-">> \o Pad2(c.month) \o <<"-">> \o Pad2(c.day)

\* the time of day of toISOString(), HH:mm:ss.sss (whole seconds)
IsoTime(timestamp) ==
    LET sod == timestamp % 86400
    IN  Pad2(sod \div 3600) \o <<":">> \o Pad2((sod % 3600) \div 60) \o <<":">>
        \o Pad2(sod % 60) \o <<".", "0", "0", "0">>

\* toISOString().replace('T', ' ').replace('Z', '')
TimestampString(timestamp) == IsoDate(timestamp) \o <<" ">> \o IsoTime(timestamp)

-----------------------------------------------------------------------------
(* Title derivation: PostTransformer.extractTitle and its helpers          *)

TitleMaxWords == 10
SlugMaxWords == 12

\* stripHtml: html.replace(/<[^>]*>/g, '').  A character is removed when a
\* '<' at or before it reaches it without crossing a '>' and a '>' follows.
StripHtml(html) ==
    LET InTag(i) == /\ \E p \in 1..i : /\ html[p] = "<"
                                       /\ \A k \in p..(i-1) : html[k] # ">"
                    /\ \E q \in i..Len(html) : html[q] = ">"
    IN  PickMap(html, {i \in 1..Len(html) : ~InTag(i)}, html)

\* the entities table of decodeHtmlEntities
Entities ==
    << << <<"&","a","m","p",";">>,             <<"&">> >>,
       << <<"&","l","t",";">>,                 <<"<">> >>,
       << <<"&","g","t",";">>,                 <<">">> >>,
       << <<"&","q","u","o","t",";">>,         <<"\"">> >>,
       << <<"&","#","3","9",";">>,             <<"'">> >>,
       << <<"&","a","p","o","s",";">>,         <<"'">> >>,
       << <<"&","n","b","s","p",";">>,         <<" ">> >>,
       << <<"&","h","e","l","l","i","p",";">>, <<".",".",".">> >>,
       << <<"&","m","d","a","s","h",";">>,     <<"U+2014">> >>,
       << <<"&","n","d","a","s","h",";">>,     <<"U+2013">> >>,
       << <<"&","l","s","q","u","o",";">>,     <<"'">> >>,
       << <<"&","r","s","q","u","o",";">>,     <<"'">> >>,
       << <<"&","l","d","q","u","o",";">>,     <<"\"">> >>,
       << <<"&","r","d","q","u","o",";">>,     <<"\"">> >> >>

\* entities[match] || match
EntityOf(match) ==
    IF \E i \in DOMAIN Entities : Entities[i][1] = match
    THEN Entities[CHOOSE i \in DOMAIN Entities : Entities[i][1] = match][2]
    ELSE match

\* where the match of /&[a-zA-Z0-9#]+;/ that starts at the head of s ends (0: none)
EntityEnd(s) ==
    IF s = <<>> \/ Head(s) # "&" THEN 0
    ELSE LET ends == {e \in 3..Len(s) : /\ s[e] = ";"
                                        /\ \A k \in 2..(e-1) : IsEntityChar(s[k])}
         IN  IF ends = {} THEN 0 ELSE SetMin(ends)

\* decodeHtmlEntities scanning the replacement of a match again
RECURSIVE DecodeHtmlEntitiesRescan(_)
DecodeHtmlEntitiesRescan(text) ==
    IF text = <<>> THEN <<>>
    ELSE LET e == EntityEnd(text)
         IN  IF e = 0 \/ EntityOf(SubSeq(text, 1, e)) = SubSeq(text, 1, e)
             THEN <<Head(text)>> \o DecodeHtmlEntitiesRescan(Tail(text))
             ELSE DecodeHtmlEntitiesRescan(EntityOf(SubSeq(text, 1, e))
                                           \o SubSeq(text, e + 1, Len(text)))

\* decodeHtmlEntities: text.replace(/&[a-zA-Z0-9#]+;/g, m => entities[m] || m)
RECURSIVE DecodeHtmlEntities(_)
DecodeHtmlEntities(text) ==
    IF text = <<>> THEN <<>>
    ELSE LET e == EntityEnd(text)
         IN  IF e = 0
             THEN <<Head(text)>> \o DecodeHtmlEntities(Tail(text))
             ELSE EntityOf(SubSeq(text, 1, e))
                  \o DecodeHtmlEntities(SubSeq(text, e + 1, Len(text)))

\* text.trim().replace(/\s+/g, ' ')
CleanText(text) == ReplaceRuns(Trim(text), Spaces, " ")

\* extractFirstSentence without the test on the number of words
ExtractFirstSentenceAnyWords(text) ==
    LET cleanText == CleanText(text)
        terms     == {i \in 1..Len(cleanText) : IsTerminator(cleanText[i])}
        p         == SetMin(terms)
        matched   == /\ terms # {}
                     /\ (p = Len(cleanText) \/ IsSpace(cleanText[p + 1]))
        sentence  == Trim(SubSeq(cleanText, 1, p))
    IN  IF matched /\ Len(sentence) > 10 THEN sentence ELSE <<>>

\* extractFirstSentence: the match of /^[^.!?]*[.!?](?:\s|$)/, trimmed, when it is
\* longer than 10 characters and splits on ' ' into more than 3 pieces; else ''
ExtractFirstSentence(text) ==
    LET cleanText == CleanText(text)
        terms     == {i \in 1..Len(cleanText) : IsTerminator(cleanText[i])}
        p         == SetMin(terms)
        matched   == /\ terms # {}
                     /\ (p = Len(cleanText) \/ IsSpace(cleanText[p + 1]))
        sentence  == Trim(SubSeq(cleanText, 1, p))
    IN  IF matched /\ Len(sentence) > 10 /\ Count(sentence, " ") + 1 > 3
        THEN sentence
        ELSE <<>>

\* extractFirstWords: the first maxWords words, those longer than one character
\* kept, joined by ' ' when at least 3 are kept; else ''
ExtractFirstWords(text, maxWords) ==
    LET cleanText == CleanText(text)
        all       == SplitWs(cleanText)
        words     == SubSeq(all, 1, IF Len(all) < maxWords THEN Len(all) ELSE maxWords)
        meaningfulWords == SelectSeq(words, LAMBDA w : Len(w) > 1)
    IN  IF Len(meaningfulWords) >= 3 THEN JoinSpace(meaningfulWords) ELSE <<>>

\* humanizeSlug: slug.replace(/-/g, ' ').replace(/\b\w/g, l => l.toUpperCase()).trim()
HumanizeSlug(slug) ==
    LET spaced == [i \in 1..Len(slug) |-> IF slug[i] = "-" THEN " " ELSE slug[i]]
        capped == [i \in 1..Len(spaced) |->
                     IF IsWordChar(spaced[i]) /\ (i = 1 \/ ~IsWordChar(spaced[i-1]))
                     THEN ToUpperChar(spaced[i])
                     ELSE spaced[i]]
    IN  Trim(capped)

\* truncateToWords: text itself when text.split(/\s+/) has at most maxWords
\* pieces, else the first maxWords pieces joined by ' '
TruncateToWords(text, maxWords) ==
    LET words == SplitWs(text)
    IN  IF Len(words) <= maxWords THEN text
        ELSE JoinSpace(SubSeq(words, 1, maxWords))

\* `Post from ${dateString}`
DateTitle(timestamp) ==
    <<"P","o","s","t"," ","f","r","o","m"," ">> \o IsoDate(timestamp)

\* step 2 of extractTitle: the title taken from the body, '' when none is
BodyTitle(body) ==
    IF ~(Truthy(body) /\ Trim(body) # <<>>) THEN <<>>
    ELSE LET decodedText   == DecodeHtmlEntities(StripHtml(body))
             firstSentence == ExtractFirstSentence(decodedText)
             firstWords    == ExtractFirstWords(decodedText, TitleMaxWords)
         IN  IF firstSentence # <<>> /\ Len(firstSentence) > 10 THEN firstSentence
             ELSE IF firstWords # <<>> /\ Len(firstWords) > 5 THEN firstWords
             ELSE <<>>

\* step 3 of extractTitle without the test on the length of the result
SlugTitleAnyLength(slug) ==
    IF ~(Truthy(slug) /\ Trim(slug) # <<>>) THEN <<>>
    ELSE TruncateToWords(HumanizeSlug(slug), SlugMaxWords)

\* step 3 of extractTitle: the title taken from the slug, '' when none is
SlugTitle(slug) ==
    IF ~(Truthy(slug) /\ Trim(slug) # <<>>) THEN <<>>
    ELSE LET truncatedSlug == TruncateToWords(HumanizeSlug(slug), SlugMaxWords)
         IN  IF Len(truncatedSlug) > 5 THEN truncatedSlug ELSE <<>>

\* extractTitle with step 1 guarded by `if (tumblrPost.title)` alone
ExtractTitleUnguarded(tumblrPost) ==
    IF Truthy(tumblrPost.title)
    THEN Trim(tumblrPost.title)
    ELSE IF BodyTitle(tumblrPost.body) # <<>> THEN BodyTitle(tumblrPost.body)
    ELSE IF SlugTitle(tumblrPost.slug) # <<>> THEN SlugTitle(tumblrPost.slug)
    ELSE DateTitle(tumblrPost.timestamp)

\* extractTitle with the slug consulted before the body, the order of the
\* draft at lines 109-140
ExtractTitleSlugFirst(tumblrPost) ==
    IF Truthy(tumblrPost.title) /\ Trim(tumblrPost.title) # <<>>
    THEN Trim(tumblrPost.title)
    ELSE IF SlugTitle(tumblrPost.slug) # <<>> THEN SlugTitle(tumblrPost.slug)
    ELSE IF BodyTitle(tumblrPost.body) # <<>> THEN BodyTitle(tumblrPost.body)
    ELSE DateTitle(tumblrPost.timestamp)

\* extractTitle: the first of the four steps that yields a title
ExtractTitle(tumblrPost) ==
    IF Truthy(tumblrPost.title) /\ Trim(tumblrPost.title) # <<>>
    THEN Trim(tumblrPost.title)
    ELSE IF BodyTitle(tumblrPost.body) # <<>> THEN BodyTitle(tumblrPost.body)
    ELSE IF SlugTitle(tumblrPost.slug) # <<>> THEN SlugTitle(tumblrPost.slug)
    ELSE DateTitle(tumblrPost.timestamp)

-----------------------------------------------------------------------------
(* Slug generation: PostTransformer.generateSlug and slugify               *)

\* text.toLowerCase().replace(/[^\w\s-]/g, '').replace(/\s+/g, '-')
\*     .replace(/-+/g, '-').trim()
Slugify(text) ==
    LET lowered  == ToLowerCase(text)
        stripped == RemoveChars(lowered, WordChars \cup Spaces \cup {"-"})
        dashed   == ReplaceRuns(stripped, Spaces, "-")
        single   == ReplaceRuns(dashed, {"-"}, "-")
    IN  Trim(single)

\* /^[a-z0-9-]+$/.test(slug): the slug format of a Ghost import
\* (test converts an absent slug to the text "null" or "undefined", which matches)
SlugPattern(slug) ==
    \/ slug = Null
    \/ /\ Len(slug) > 0
       /\ \A i \in 1..Len(slug) : slug[i] \in Lowers \cup Digits \cup {"-"}

GenerateSlug(tumblrPost) ==
    IF Truthy(tumblrPost.slug) THEN tumblrPost.slug
    ELSE Slugify(ExtractTitle(tumblrPost))

-----------------------------------------------------------------------------
(* Gallery repacking: the row loop of convertTumblrGalleryToGhostGallery   *)

Last(rows) == rows[Len(rows)]

\* the row loop flushing the buffer only once it holds 3 images
RepackStepFillThree(rows, buffer, tumblrRow) ==
    LET pushed == buffer \o tumblrRow
    IN  IF Len(pushed) >= 3
        THEN <<Append(rows, SubSeq(pushed, 1, 3)), SubSeq(pushed, 4, Len(pushed))>>
        ELSE <<rows, pushed>>

\* the row loop flushing the whole buffer once it holds 2 or more images
RepackStepNoSplit(rows, buffer, tumblrRow) ==
    IF Len(buffer \o tumblrRow) >= 2
    THEN <<Append(rows, buffer \o tumblrRow), <<>>>>
    ELSE <<rows, buffer \o tumblrRow>>

\* one iteration of `for (const tumblrRow of galleryRows)`: the pair
\* <<ghostRows, currentRow>> after it
RepackStep(rows, buffer, tumblrRow) ==
    LET pushed == buffer \o tumblrRow
    IN  IF Len(pushed) >= 2 /\ Len(pushed) <= 3
        THEN <<Append(rows, pushed), <<>>>>
        ELSE IF Len(pushed) > 3
        THEN <<Append(rows, SubSeq(pushed, 1, 3)), SubSeq(pushed, 4, Len(pushed))>>
        ELSE <<rows, pushed>>

\* the leftover step always emitting the single image as a row of its own
RepackLeftoverAlone(rows, buffer) ==
    IF Len(buffer) = 1 THEN Append(rows, <<buffer[1]>>) ELSE rows

\* `if (currentRow.length === 1) { ... }` after the loop: ghostRows after it
RepackLeftover(rows, buffer) ==
    IF Len(buffer) = 1
    THEN IF Len(rows) > 0 /\ Len(Last(rows)) = 2
         THEN [rows EXCEPT ![Len(rows)] = Append(@, buffer[1])]
         ELSE Append(rows, <<buffer[1]>>)
    ELSE rows

\* the whole loop, from row i on
RECURSIVE RepackFrom(_, _, _, _)
RepackFrom(tumblrRows, i, rows, buffer) ==
    IF i > Len(tumblrRows) THEN RepackLeftover(rows, buffer)
    ELSE LET next == RepackStep(rows, buffer, tumblrRows[i])
         IN  RepackFrom(tumblrRows, i + 1, next[1], next[2])

\* ghostRows as built for the gallery markup
RepackRows(tumblrRows) == RepackFrom(tumblrRows, 1, <<>>, <<>>)

-----------------------------------------------------------------------------
(* Gallery scan and markup: convertTumblrGalleryToGhostGallery             *)

\* ["']
Quotes == {"\"", "'"}
IsQuote(c) == c \in Quotes

\* whether the (lower-case) pattern pat occurs in s at position i, letter case ignored
IsAt(s, i, pat) ==
    /\ i >= 1
    /\ i + Len(pat) - 1 <= Len(s)
    /\ \A k \in 1..Len(pat) : ToLowerChar(s[i + k - 1]) = pat[k]

\* the first position >= i of s whose character is of the class (0: none)
FirstFrom(s, i, class) ==
    LET hits == {j \in i..Len(s) : s[j] \in class}
    IN  IF hits = {} THEN 0 ELSE SetMin(hits)

\* the first position >= i of s where pat occurs (0: none)
FirstAt(s, i, pat) ==
    LET hits == {j \in i..Len(s) : IsAt(s, j, pat)}
    IN  IF hits = {} THEN 0 ELSE SetMin(hits)

PatDiv ==
    <<"<","d","i","v">>
PatClass ==
    <<"c","l","a","s","s","=">>
PatNpfRow ==
    <<"n","p","f","_","r","o","w">>
PatDivClose ==
    <<"<","/","d","i","v",">">>
PatImg ==
    <<"<","i","m","g"," ">>
PatSrc ==
    <<"s","r","c","=">>

\* A match of rowRegex,
\*   /<div[^>]*class=["'][^"']*npf_row[^"']*["'][^>]*>([\s\S]*?)<\/div>/gi,
\* that starts at i: for a `class=` at a (no '>' between the tag name and a), the
\* value runs to the first quote after its opening quote and must hold npf_row,
\* the tag ends at the first '>' after that quote, and the row at the first
\* </div> after the tag.  [^>]* is greedy: the last such a is taken.
RowClassAt(s, i, a) ==
    /\ \A k \in (i + 4)..(a - 1) : s[k] # ">"
    /\ IsAt(s, a, PatClass)
    /\ a + 6 <= Len(s)
    /\ IsQuote(s[a + 6])
    /\ LET q == FirstFrom(s, a + 7, Quotes)
       IN  /\ q # 0
           /\ \E b \in (a + 7)..(q - 7) : IsAt(s, b, PatNpfRow)
           /\ LET d == FirstFrom(s, q + 1, {">"})
              IN  d # 0 /\ FirstAt(s, d + 1, PatDivClose) # 0

\* the match starting at i: [ok, open (the '>' of the tag), close (the </div>)]
RowMatchAt(s, i) ==
    LET as == IF IsAt(s, i, PatDiv)
              THEN {a \in (i + 4)..Len(s) : RowClassAt(s, i, a)}
              ELSE {}
    IN  IF as = {} THEN [ok |-> FALSE, open |-> 0, close |-> 0]
        ELSE LET a == SetMax(as)
                 q == FirstFrom(s, a + 7, Quotes)
                 d == FirstFrom(s, q + 1, {">"})
             IN  [ok |-> TRUE, open |-> d, close |-> FirstAt(s, d + 1, PatDivClose)]

\* the matches of rowRegex.exec in a loop, from position `from` on: a sequence
\* of [start, open, close]
RECURSIVE ScanRowsFrom(_, _)
ScanRowsFrom(s, from) ==
    LET starts == {i \in from..Len(s) : RowMatchAt(s, i).ok}
    IN  IF starts = {} THEN <<>>
        ELSE LET i == SetMin(starts)
                 m == RowMatchAt(s, i)
             IN  <<[start |-> i, open |-> m.open, close |-> m.close]>>
                 \o ScanRowsFrom(s, m.close + 6)

\* A match of imgRegex, /<img [^>]*src=["']([^"']+)["'][^>]*>/gi, starting at i
\* with its `src=` at a: the value is not empty and runs to the next quote, and
\* a '>' follows.
ImgSrcAt(s, i, a) ==
    /\ \A k \in (i + 5)..(a - 1) : s[k] # ">"
    /\ IsAt(s, a, PatSrc)
    /\ a + 5 <= Len(s)
    /\ IsQuote(s[a + 4])
    /\ ~IsQuote(s[a + 5])
    /\ LET q == FirstFrom(s, a + 6, Quotes)
       IN  q # 0 /\ FirstFrom(s, q + 1, {">"}) # 0

\* the srcs of the imgRegex matches in rowHtml, from position `from` on
RECURSIVE RowImagesFrom(_, _)
RowImagesFrom(s, from) ==
    LET Srcs(i) == IF IsAt(s, i, PatImg)
                   THEN {a \in (i + 5)..Len(s) : ImgSrcAt(s, i, a)}
                   ELSE {}
        starts  == {i \in from..Len(s) : Srcs(i) # {}}
    IN  IF starts = {} THEN <<>>
        ELSE LET i == SetMin(starts)
                 a == SetMax(Srcs(i))
                 q == FirstFrom(s, a + 6, Quotes)
                 e == FirstFrom(s, q + 1, {">"})
             IN  <<SubSeq(s, a + 5, q - 1)>> \o RowImagesFrom(s, e + 1)

\* galleryRows: the images of every matched row that holds at least one
GalleryRowsOf(body) ==
    LET matches == ScanRowsFrom(body, 1)
        images  == [k \in 1..Len(matches) |->
                      RowImagesFrom(SubSeq(body, matches[k].open + 1,
                                           matches[k].close - 1), 1)]
    IN  SelectSeq(images, LAMBDA r : Len(r) > 0)

FigureOpen ==
    <<"<","f","i","g","u","r","e"," ","c","l","a","s","s","=","\"","k","g",
      "-","c","a","r","d"," ","k","g","-","g","a","l","l","e","r","y","-",
      "c","a","r","d"," ","k","g","-","w","i","d","t","h","-","w","i","d",
      "e","\"",">","<","d","i","v"," ","c","l","a","s","s","=","\"","k","g",
      "-","g","a","l","l","e","r","y","-","c","o","n","t","a","i","n","e",
      "r","\"",">">>
FigureClose ==
    <<"<","/","d","i","v",">","<","/","f","i","g","u","r","e",">">>
RowOpen ==
    <<"<","d","i","v"," ","c","l","a","s","s","=","\"","k","g","-","g","a",
      "l","l","e","r","y","-","r","o","w","\"",">">>
RowClose ==
    <<"<","/","d","i","v",">">>
ImageOpen ==
    <<"<","d","i","v"," ","c","l","a","s","s","=","\"","k","g","-","g","a",
      "l","l","e","r","y","-","i","m","a","g","e","\"",">","<","i","m","g",
      " ","s","r","c","=","\"">>
ImageClose ==
    <<"\""," ","l","o","a","d","i","n","g","=","\"","l","a","z","y","\"",
      " ","a","l","t","=","\"","\""," ","/",">","<","/","d","i","v",">">>
EmptyParagraph ==
    <<"<","p",">","<","/","p",">">>

\* the markup of one Ghost row
RowHtml(row) ==
    RowOpen \o Flatten([k \in 1..Len(row) |-> ImageOpen \o row[k] \o ImageClose])
    \o RowClose

\* galleryHtml for the repacked rows
GalleryHtml(rows) ==
    FigureOpen \o Flatten([k \in 1..Len(rows) |-> RowHtml(rows[k])]) \o FigureClose

\* galleryHtml: the markup of the repacked rows, when rows with images were found
GalleryHtmlOf(matches, rows) ==
    IF matches # <<>> /\ Len(rows) > 0 THEN GalleryHtml(RepackRows(rows)) ELSE <<>>

\* textBefore: the body up to the first match (match.index, counted from 0, is
\* matches[1].start - 1); the whole body when nothing matched
TextBefore(body, matches) ==
    IF matches = <<>> THEN body
    ELSE IF matches[1].start - 1 > 0 THEN SubSeq(body, 1, matches[1].start - 1)
    ELSE <<>>

\* textAfter: the body from rowRegex.lastIndex (Last(matches).close + 5, counted
\* from 0) on
TextAfter(body, matches) ==
    IF matches # <<>> /\ Last(matches).close + 5 < Len(body)
    THEN SubSeq(body, Last(matches).close + 6, Len(body))
    ELSE <<>>

\* `if (text.trim()) html += text`
TextIfNotBlank(text) == IF Trim(text) # <<>> THEN text ELSE <<>>

\* `return html || '<p></p>'`
HtmlOrEmptyParagraph(html) == IF html # <<>> THEN html ELSE EmptyParagraph

\* the pieces put together, for the matches of rowRegex in body
ConvertMatches(body, matches) ==
    HtmlOrEmptyParagraph(TextIfNotBlank(TextBefore(body, matches))
                         \o GalleryHtmlOf(matches, GalleryRowsOf(body))
                         \o TextIfNotBlank(TextAfter(body, matches)))

ConvertTumblrGalleryToGhostGallery(body) ==
    ConvertMatches(body, ScanRowsFrom(body, 1))

\* convertToHtml: every post type alike, the body with its galleries converted
ConvertToHtml(tumblrPost) ==
    ConvertTumblrGalleryToGhostGallery(
        IF Truthy(tumblrPost.body) THEN tumblrPost.body ELSE <<>>)

-----------------------------------------------------------------------------
(* Feature image and PostTransformer.transform                             *)

PatImgTag ==
    <<"<","i","m","g">>
PatData ==
    <<"d","a","t","a",":">>
StatusPublished ==
    <<"p","u","b","l","i","s","h","e","d">>

\* A match of /<img[^>]+src=["']([^"']+)["'][^>]*>/gi starting at i with its
\* `src=` at a: at least one character lies between the tag name and `src=`.
TagSrcAt(s, i, a) ==
    /\ a >= i + 5
    /\ \A k \in (i + 4)..(a - 1) : s[k] # ">"
    /\ IsAt(s, a, PatSrc)
    /\ a + 5 <= Len(s)
    /\ IsQuote(s[a + 4])
    /\ ~IsQuote(s[a + 5])
    /\ LET q == FirstFrom(s, a + 6, Quotes)
       IN  q # 0 /\ FirstFrom(s, q + 1, {">"}) # 0

\* extractImagesFromHtml: the srcs of the matches that do not start with data:
RECURSIVE ExtractImagesFrom(_, _)
ExtractImagesFrom(s, from) ==
    LET Srcs(i) == IF IsAt(s, i, PatImgTag)
                   THEN {a \in (i + 5)..Len(s) : TagSrcAt(s, i, a)}
                   ELSE {}
        starts  == {i \in from..Len(s) : Srcs(i) # {}}
    IN  IF starts = {} THEN <<>>
        ELSE LET i   == SetMin(starts)
                 a   == SetMax(Srcs(i))
                 q   == FirstFrom(s, a + 6, Quotes)
                 e   == FirstFrom(s, q + 1, {">"})
                 src == SubSeq(s, a + 5, q - 1)
             IN  (IF Len(src) >= 5 /\ SubSeq(src, 1, 5) = PatData
                  THEN <<>> ELSE <<src>>)
                 \o ExtractImagesFrom(s, e + 1)

ExtractImagesFromHtml(html) == ExtractImagesFrom(html, 1)

\* tumblrPost.photos is {} when the post has no photos array and {array}
\* otherwise; a photo is a record of its original_size, which is the url, or
\* Null when the photo has no original_size
\* `tumblrPost.photos && tumblrPost.photos.length > 0`
HasPhotos(tumblrPost) ==
    \E photos_ \in tumblrPost.photos : Len(photos_) > 0
\* tumblrPost.photos[0]
FirstPhoto(tumblrPost) == (CHOOSE photos_ \in tumblrPost.photos : TRUE)[1]

\* whether extractFeatureImage throws: photos[0].original_size is undefined
FeatureImageThrows(tumblrPost) ==
    /\ ~(Truthy(tumblrPost.body) /\ ExtractImagesFromHtml(tumblrPost.body) # <<>>)
    /\ HasPhotos(tumblrPost)
    /\ FirstPhoto(tumblrPost).original_size = Null

ExtractFeatureImage(tumblrPost) ==
    IF Truthy(tumblrPost.body) /\ ExtractImagesFromHtml(tumblrPost.body) # <<>>
    THEN ExtractImagesFromHtml(tumblrPost.body)[1]
    ELSE IF HasPhotos(tumblrPost)
    THEN FirstPhoto(tumblrPost).original_size
    ELSE Null

\* transform: the GhostPost built from a TumblrPost; uuid is the value uuidv4()
\* drew.  The record has no author_id and no tags: transform sets neither.
Transform(tumblrPost, uuid) ==
    [ id            |-> tumblrPost.id,
      uuid          |-> uuid,
      title         |-> ExtractTitle(tumblrPost),
      slug          |-> GenerateSlug(tumblrPost),
      mobiledoc     |-> Null,
      html          |-> ConvertToHtml(tumblrPost),
      comment_id    |-> tumblrPost.id,
      feature_image |-> ExtractFeatureImage(tumblrPost),
      status        |-> StatusPublished,
      published_at  |-> TimestampString(tumblrPost.timestamp),
      created_at    |-> TimestampString(tumblrPost.timestamp),
      updated_at    |-> TimestampString(tumblrPost.timestamp) ]

\* the values uuidv4() may return
UUIDs == {<<"u", "1">>, <<"u", "2">>}

-----------------------------------------------------------------------------
(* SpecTitle: one call of transform on a post drawn from bounded inputs    *)

\* the most tokens a post's title, body and slug hold together
MaxPostTokens == 3

TitleTokens == { <<" ">>, <<"H","i">>, <<"_","?">> }
BodyTokens  == { <<"o","n","e"," ","t","w","o"," ","t","h","r","e","e"," ","f","o","u","r"," ","f","i","v","e"," ","s","i","x"," ">>,
                 <<"w","o","n","d","e","r","f","u","l"," ","d","a","y","."," ">>,
                 <<".">>, <<"<","p",">">>, <<"&","a","m","p",";">> }
SlugTokens  == { <<"m","y","-","c","o","o","l">>, <<"-">>, <<"a","b">>,
                 <<"a","-","b","-","c","-","d","-","e","-">> }
Timestamps == {86399, 1700000000}

\* the strings made of exactly n tokens; an absent field holds no token
TokenStrings(tokens, n) ==
    {Flatten(ts) : ts \in [1..n -> tokens]} \cup (IF n = 0 THEN {Null} ELSE {})

\* how many tokens the title, the body and the slug hold
PostShapes ==
    { m \in (0..MaxPostTokens) \X (0..MaxPostTokens) \X (0..MaxPostTokens) :
        m[1] + m[2] + m[3] <= MaxPostTokens }

\* post.type: the eight types of the Tumblr API, and one that is none of them
TypeText == <<"t","e","x","t">>
TypePoll == <<"p","o","l","l">>
RecognisedTypes ==
    { TypeText, <<"p","h","o","t","o">>, <<"q","u","o","t","e">>,
      <<"l","i","n","k">>, <<"c","h","a","t">>, <<"a","u","d","i","o">>,
      <<"v","i","d","e","o">>, <<"a","n","s","w","e","r">> }

\* the TumblrPost of a title, a body, a slug and a timestamp; transform reads
\* no other field but photos
SourcePost(t, b, s, ts) ==
    [ id |-> <<"7">>, type |-> TypeText, title |-> t, body |-> b, slug |-> s,
      timestamp |-> ts, photos |-> {}, tags |-> <<>> ]

\* what the output path holds: nothing ("absent"), the whole document
\* ("complete") or the part of it a failed write left ("partial")
NoFile == [state |-> "absent", data |-> Null]

DecodeIdle ==
    /\ entityText = Null
    /\ decoded = <<>>
    /\ dpc = "idle"

FetchIdle ==
    /\ fetchLimit = 0
    /\ fetchedPosts = <<>>
    /\ totalFetched = 0
    /\ before = {}
    /\ requests = <<>>
    /\ fpc = "idle"

NameIdle ==
    /\ blogName = Null
    /\ flagsOutput = Null
    /\ outputPath = Null
    /\ npc = "idle"

EscapeIdle ==
    /\ typedPost = Null
    /\ fragment = Null
    /\ xpc = "idle"

GalleryIdle ==
    /\ galleryRows = <<>>
    /\ ghostRows = <<>>
    /\ currentRow = <<>>
    /\ rowIdx = 1
    /\ gpc = "idle"

TitleIdle ==
    /\ post = Null
    /\ result = Null
    /\ tpc = "idle"

ExportIdle ==
    /\ tumblrPosts = <<>>
    /\ posts = <<>>
    /\ authorConfig = <<>>
    /\ exportData = Null
    /\ outFile = NoFile
    /\ thrown = Null
    /\ epc = "idle"

\* two posts with longer fields than the tokens make: a body of two short
\* sentences in a paragraph, and a slug of three words
HelloBody ==
    <<"<","p",">","H","e","l","l","o"," ","w","o","r","l","d","."," ","M","o","r","e"," ","t","e","x","t",".","<","/","p",">">>
MyCoolPostSlug ==
    <<"m","y","-","c","o","o","l","-","p","o","s","t">>
ExamplePosts ==
    { SourcePost(<<>>, HelloBody, <<>>, ts) : ts \in Timestamps }
    \cup { SourcePost(<<>>, <<>>, MyCoolPostSlug, ts) : ts \in Timestamps }

\* posts of the other types, with no body or a body of one token
TypedPosts ==
    { [SourcePost(Null, b, Null, 86399) EXCEPT !.type = ty] :
        b \in TokenStrings(BodyTokens, 0) \cup TokenStrings(BodyTokens, 1),
        ty \in (RecognisedTypes \ {TypeText}) \cup {TypePoll} }

\* the most pieces a body with gallery rows holds
MaxGalleryTokens == 3

\* the pieces of such a body: a text (the only piece that holds a "T"), a
\* whitespace, a row of one image written either way, and a row without image
TextPiece == <<"<","p",">","T","<","/","p",">">>
RowPieceA == <<"<","d","i","v"," ","c","l","a","s","s","=","\"","n","p","f","_","r","o","w","\"",">","<","i","m","g"," ","s","r","c","=","\"","a","\"",">","<","/","d","i","v",">">>
RowPieceB == <<"<","D","I","V"," ","d","a","t","a","-","x","=","'","1","'"," ","C","L","A","S","S","=","'","a"," ","n","p","f","_","r","o","w","'",">","<","f","i","g","u","r","e",">","<","i","m","g"," ","a","l","t","=","'","'"," ","s","r","c","=","'","b","'","/",">","<","/","f","i","g","u","r","e",">","<","/","D","I","V",">">>
RowPieceEmpty == <<"<","d","i","v"," ","c","l","a","s","s","=","\"","n","p","f","_","r","o","w","\"",">"," ","<","/","d","i","v",">">>
GalleryTokens == { TextPiece, <<" ">>, RowPieceA, RowPieceB, RowPieceEmpty }

\* posts whose body is made of these pieces
GalleryPosts ==
    { SourcePost(Null, b, Null, 86399) :
        b \in UNION {TokenStrings(GalleryTokens, n) : n \in 1..MaxGalleryTokens} }

\* photo posts: no body, an empty body or a body with an image, and a photos
\* array that is absent, empty, or holds one photo with or without its
\* original_size (a photo is modelled by the url of its original_size)
PhotoUrl == <<"p",".","j","p","g">>
PhotoPosts ==
    { [SourcePost(Null, b, Null, 86399) EXCEPT !.type = <<"p","h","o","t","o">>,
                                               !.photos = ph] :
        b \in {Null, <<>>, TextPiece, RowPieceA},
        ph \in { {}, {<<>>}, {<<[original_size |-> PhotoUrl]>>},
                 {<<[original_size |-> Null]>>} } }

InitTitle ==
    /\ \/ \E n \in PostShapes :
            \E t \in TokenStrings(TitleTokens, n[1]),
               b \in TokenStrings(BodyTokens, n[2]),
               s \in TokenStrings(SlugTokens, n[3]),
               ts \in Timestamps :
                   post = SourcePost(t, b, s, ts)
       \/ post \in ExamplePosts
       \/ post \in TypedPosts
       \/ post \in GalleryPosts
       \/ post \in PhotoPosts
    /\ result = Null
    /\ tpc = "start"
    /\ GalleryIdle
    /\ ExportIdle
    /\ DecodeIdle
    /\ FetchIdle
    /\ NameIdle
    /\ EscapeIdle

\* transformer.transform(post)
TransformPost ==
    /\ tpc = "start"
    /\ ~FeatureImageThrows(post)
    /\ \E u \in UUIDs : result' = Transform(post, u)
    /\ tpc' = "done"
    /\ UNCHANGED <<post, galleryVars, exportVars, decodeVars, fetchVars, nameVars, escapeVars>>

\* transformer.transform(post) throws: extractFeatureImage reads the url of an
\* original_size that is undefined
TransformPostThrows ==
    /\ tpc = "start"
    /\ FeatureImageThrows(post)
    /\ tpc' = "failed"
    /\ UNCHANGED <<post, result, galleryVars, exportVars, decodeVars, fetchVars, nameVars, escapeVars>>

NextTitle ==
    \/ TransformPost
    \/ TransformPostThrows

SpecTitle == InitTitle /\ [][NextTitle]_vars

-----------------------------------------------------------------------------
(* SpecGallery: the repacking of the rows one gallery scan found           *)

\* the most rows a gallery holds, and the most images a row holds
MaxRows == 4
MaxRowSize == 5

\* the rows of the given sizes, the images numbered in document order
RECURSIVE RowsOfSizes(_, _)
RowsOfSizes(sizes, from) ==
    IF sizes = <<>> THEN <<>>
    ELSE <<[k \in 1..Head(sizes) |-> from + k - 1]>>
         \o RowsOfSizes(Tail(sizes), from + Head(sizes))

\* galleryRows after the scan: a row is kept only when it holds an image
InitGallery ==
    /\ \E n \in 0..MaxRows :
         \E sizes \in [1..n -> 1..MaxRowSize] :
            galleryRows = RowsOfSizes(sizes, 1)
    /\ ghostRows = <<>>
    /\ currentRow = <<>>
    /\ rowIdx = 1
    /\ gpc = IF galleryRows = <<>> THEN "done" ELSE "loop"
    /\ TitleIdle
    /\ ExportIdle
    /\ DecodeIdle
    /\ FetchIdle
    /\ NameIdle
    /\ EscapeIdle

\* one iteration of `for (const tumblrRow of galleryRows)`
GalleryLoopStep ==
    /\ gpc = "loop"
    /\ LET next == RepackStep(ghostRows, currentRow, galleryRows[rowIdx])
       IN  /\ ghostRows' = next[1]
           /\ currentRow' = next[2]
    /\ rowIdx' = rowIdx + 1
    /\ gpc' = IF rowIdx = Len(galleryRows) THEN "leftover" ELSE "loop"
    /\ UNCHANGED <<galleryRows, titleVars, exportVars, decodeVars, fetchVars, nameVars, escapeVars>>

\* `if (currentRow.length === 1) { ... }` after the loop
GalleryLeftover ==
    /\ gpc = "leftover"
    /\ ghostRows' = RepackLeftover(ghostRows, currentRow)
    /\ gpc' = "done"
    /\ UNCHANGED <<galleryRows, currentRow, rowIdx, titleVars, exportVars, decodeVars, fetchVars, nameVars, escapeVars>>

NextGallery == GalleryLoopStep \/ GalleryLeftover

SpecGallery == InitGallery /\ [][NextGallery]_vars

-----------------------------------------------------------------------------

(* The export assembler: GhostExporter of src/src/export/jsonWriter.ts     *)

\* A number that may be undefined is the set of its values: {} when
\* undefined, {n} when it is n.
Undefined == {}

\* !!v of a number-or-undefined value
TruthyNum(v) == v # Undefined /\ v # {0}

\* `${n}` of a natural number
RECURSIVE NumberString(_)
NumberString(n) ==
    IF n < 10 THEN <<DigitChars[n + 1]>>
    ELSE NumberString(n \div 10) \o <<DigitChars[(n % 10) + 1]>>

\* `${v}` of a number-or-undefined value
NumString(v) ==
    IF v = Undefined THEN <<"u","n","d","e","f","i","n","e","d">>
    ELSE NumberString(CHOOSE n \in v : TRUE)

\* post.author_id: undefined on a post that carries no such property
AuthorIdOf(ghostPost) ==
    IF "author_id" \in DOMAIN ghostPost THEN ghostPost.author_id ELSE Undefined

TagName ==
    <<"I","m","p","o","r","t","e","d">>
TagSlug ==
    <<"i","m","p","o","r","t","e","d">>
TagDescription ==
    <<"P","o","s","t","s"," ","i","m","p","o","r","t","e","d"," ","f","r",
      "o","m"," ","T","u","m","b","l","r">>
DefaultAuthorName ==
    <<"I","m","p","o","r","t","e","d"," ","U","s","e","r">>
DefaultAuthorEmail ==
    <<"i","m","p","o","r","t","e","d","@","e","x","a","m","p","l","e",".",
      "c","o","m">>
DefaultAuthorSlug ==
    <<"i","m","p","o","r","t","e","d","-","u","s","e","r">>
StatusActive ==
    <<"a","c","t","i","v","e">>
RoleName ==
    <<"A","u","t","h","o","r">>
RoleDescription ==
    <<"A","u","t","h","o","r","s">>
ExportVersion ==
    <<"5",".","0",".","0">>

\* extractUniqueTags: the one default tag, made when there is any post
ExtractUniqueTags(ghostPosts) ==
    IF Len(ghostPosts) > 0
    THEN << [ id |-> {1}, name |-> TagName, slug |-> TagSlug,
              description |-> TagDescription ] >>
    ELSE <<>>

\* this.authorConfig?.field || fallback
ConfigOr(config, field, fallback) ==
    IF Len(config) > 0 /\ Truthy(config[1][field]) THEN config[1][field] ELSE fallback

\* extractUniqueAuthors: one user per distinct author_id, in the order of the
\* first post of each, its dates taken from that post
ExtractUniqueAuthors(ghostPosts, config) ==
    PickMap(ghostPosts,
        {i \in 1..Len(ghostPosts) :
            \A j \in 1..(i - 1) : AuthorIdOf(ghostPosts[j]) # AuthorIdOf(ghostPosts[i])},
        [i \in 1..Len(ghostPosts) |->
            [ id         |-> AuthorIdOf(ghostPosts[i]),
              name       |-> ConfigOr(config, "name", DefaultAuthorName),
              slug       |-> ConfigOr(config, "slug", DefaultAuthorSlug),
              email      |-> ConfigOr(config, "email", DefaultAuthorEmail),
              status     |-> StatusActive,
              created_at |-> ghostPosts[i].created_at,
              updated_at |-> ghostPosts[i].updated_at ]])

\* createPostsTags: every post linked to the first tag
CreatePostsTags(ghostPosts, tags) ==
    IF Len(tags) = 0 THEN <<>>
    ELSE [i \in 1..Len(ghostPosts) |->
            [post_id |-> ghostPosts[i].id, tag_id |-> tags[1].id]]

CreatePostsAuthors(ghostPosts) ==
    [i \in 1..Len(ghostPosts) |->
        [post_id |-> ghostPosts[i].id, author_id |-> AuthorIdOf(ghostPosts[i])]]

\* createDefaultRoles, now being the value of its Date.now()
CreateDefaultRoles(now) ==
    << [ id |-> {1}, name |-> RoleName, description |-> RoleDescription,
         created_at |-> now, updated_at |-> now ] >>

CreateRolesUsers(authors) ==
    [i \in 1..Len(authors) |-> [role_id |-> {1}, user_id |-> authors[i].id]]

\* the exportData of exportToFile and exportToString; rolesNow and exportedOn
\* are the values of the two Date.now() calls
AssembleExport(ghostPosts, config, rolesNow, exportedOn) ==
    LET tags    == ExtractUniqueTags(ghostPosts)
        authors == ExtractUniqueAuthors(ghostPosts, config)
    IN  [ meta |-> [ exported_on |-> exportedOn, version |-> ExportVersion ],
          data |-> [ posts          |-> ghostPosts,
                     tags           |-> tags,
                     users          |-> authors,
                     posts_tags     |-> CreatePostsTags(ghostPosts, tags),
                     posts_authors  |-> CreatePostsAuthors(ghostPosts),
                     roles          |-> CreateDefaultRoles(rolesNow),
                     roles_users    |-> CreateRolesUsers(authors) ] ]

-----------------------------------------------------------------------------

(* Validation: validateExport, validatePost, validateTag, validateAuthor   *)

\* the requiredFields of each validator, every field with its printed name
PostRequiredFields ==
    << [key |-> "id", name |-> <<"i","d">>],
        [key |-> "title", name |-> <<"t","i","t","l","e">>],
        [key |-> "mobiledoc", name |-> <<"m","o","b","i","l","e","d","o","c">>],
        [key |-> "status", name |-> <<"s","t","a","t","u","s">>],
        [key |-> "published_at", name |-> <<"p","u","b","l","i","s","h","e","d","_","a","t">>] >>
TagRequiredFields ==
    << [key |-> "id", name |-> <<"i","d">>],
        [key |-> "name", name |-> <<"n","a","m","e">>],
        [key |-> "slug", name |-> <<"s","l","u","g">>] >>
AuthorRequiredFields ==
    << [key |-> "id", name |-> <<"i","d">>],
        [key |-> "name", name |-> <<"n","a","m","e">>],
        [key |-> "slug", name |-> <<"s","l","u","g">>],
        [key |-> "email", name |-> <<"e","m","a","i","l">>],
        [key |-> "status", name |-> <<"s","t","a","t","u","s">>] >>

\* the ids of tags and users are numbers, every other required field is text
FieldTruthy(entity, key, numericId) ==
    IF numericId /\ key = "id" THEN TruthyNum(entity[key]) ELSE Truthy(entity[key])

\* the printed name of the first required field that is falsy, Null if none is
FirstMissing(entity, required, numericId) ==
    LET missing == {i \in 1..Len(required) :
                      ~FieldTruthy(entity, required[i].key, numericId)}
    IN  IF missing = {} THEN Null ELSE required[SetMin(missing)].name

\* /^[^\s@]+@[^\s@]+\.[^\s@]+$/.test(email)
EmailPattern(email) ==
    /\ email # Null
    /\ \A i \in 1..Len(email) : ~IsSpace(email[i])
    /\ Count(email, "@") = 1
    /\ LET at == CHOOSE i \in 1..Len(email) : email[i] = "@"
       IN  /\ at > 1
           /\ \E dot \in (at + 2)..(Len(email) - 1) : email[dot] = "."

MsgPostMissing ==
    <<"P","o","s","t"," ","m","i","s","s","i","n","g"," ","r","e","q","u",
      "i","r","e","d"," ","f","i","e","l","d",":"," ">>
MsgTagMissing ==
    <<"T","a","g"," ","m","i","s","s","i","n","g"," ","r","e","q","u","i",
      "r","e","d"," ","f","i","e","l","d",":"," ">>
MsgAuthorMissing ==
    <<"A","u","t","h","o","r"," ","m","i","s","s","i","n","g"," ","r","e",
      "q","u","i","r","e","d"," ","f","i","e","l","d",":"," ">>
MsgPost ==
    <<"P","o","s","t"," ">>
MsgTag ==
    <<"T","a","g"," ">>
MsgAuthor ==
    <<"A","u","t","h","o","r"," ">>
MsgEmptyMobiledoc ==
    <<" ","h","a","s"," ","e","m","p","t","y"," ","m","o","b","i","l","e",
      "d","o","c"," ","c","o","n","t","e","n","t">>
MsgInvalidSlug ==
    <<" ","h","a","s"," ","i","n","v","a","l","i","d"," ","s","l","u","g",
      ":"," ">>
MsgInvalidEmail ==
    <<" ","h","a","s"," ","i","n","v","a","l","i","d"," ","e","m","a","i",
      "l",":"," ">>
MsgMustContain ==
    <<"E","x","p","o","r","t"," ","m","u","s","t"," ","c","o","n","t","a",
      "i","n"," ">>
\* the parts validateExport requires the document to hold, in the order tested
ExportSections ==
    << [key |-> "meta", name |-> <<"m","e","t","a">>],
       [key |-> "data", name |-> <<"d","a","t","a">>],
       [key |-> "posts", name |-> <<"p","o","s","t","s">>],
       [key |-> "tags", name |-> <<"t","a","g","s">>],
       [key |-> "users", name |-> <<"u","s","e","r","s">>],
       [key |-> "posts_tags", name |-> <<"p","o","s","t","s","_","t","a","g","s">>],
       [key |-> "posts_authors", name |-> <<"p","o","s","t","s","_","a","u","t","h","o","r","s">>],
       [key |-> "roles", name |-> <<"r","o","l","e","s">>],
       [key |-> "roles_users", name |-> <<"r","o","l","e","s","_","u","s","e","r","s">>] >>
MsgExportFailed ==
    <<"F","a","i","l","e","d"," ","t","o"," ","e","x","p","o","r","t"," ",
      "t","o"," ","f","i","l","e",":"," ","E","r","r","o","r",":"," ">>

\* validatePost with the content test passing on html as well as on mobiledoc
ValidatePostEitherContent(ghostPost) ==
    LET required == SelectSeq(PostRequiredFields, LAMBDA f : f.key # "mobiledoc")
        missing  == FirstMissing(ghostPost, required, FALSE)
        blank(s) == ~Truthy(s) \/ Trim(s) = <<>>
    IN  IF missing # Null THEN MsgPostMissing \o missing
        ELSE IF blank(ghostPost.mobiledoc) /\ blank(ghostPost.html)
        THEN MsgPost \o ghostPost.id \o MsgEmptyMobiledoc
        ELSE IF ~SlugPattern(ghostPost.slug)
        THEN MsgPost \o ghostPost.id \o MsgInvalidSlug \o ghostPost.slug
        ELSE Null

\* validatePost with the slug format tested first
ValidatePostSlugFirst(ghostPost) ==
    LET missing == FirstMissing(ghostPost, PostRequiredFields, FALSE)
    IN  IF ~SlugPattern(ghostPost.slug)
        THEN MsgPost \o ghostPost.id \o MsgInvalidSlug \o ghostPost.slug
        ELSE IF missing # Null THEN MsgPostMissing \o missing
        ELSE IF ~Truthy(ghostPost.mobiledoc) \/ Trim(ghostPost.mobiledoc) = <<>>
        THEN MsgPost \o ghostPost.id \o MsgEmptyMobiledoc
        ELSE Null

\* validatePost: the message of the error it throws, Null when it returns
ValidatePost(ghostPost) ==
    LET missing == FirstMissing(ghostPost, PostRequiredFields, FALSE)
    IN  IF missing # Null THEN MsgPostMissing \o missing
        ELSE IF ~Truthy(ghostPost.mobiledoc) \/ Trim(ghostPost.mobiledoc) = <<>>
        THEN MsgPost \o ghostPost.id \o MsgEmptyMobiledoc
        ELSE IF ~SlugPattern(ghostPost.slug)
        THEN MsgPost \o ghostPost.id \o MsgInvalidSlug \o ghostPost.slug
        ELSE Null

\* validateTag: the message of the error it throws, Null when it returns
ValidateTag(tag) ==
    LET missing == FirstMissing(tag, TagRequiredFields, TRUE)
    IN  IF missing # Null THEN MsgTagMissing \o missing
        ELSE IF ~SlugPattern(tag.slug)
        THEN MsgTag \o NumString(tag.id) \o MsgInvalidSlug \o tag.slug
        ELSE Null

\* validateAuthor: the message of the error it throws, Null when it returns
ValidateAuthor(author) ==
    LET missing == FirstMissing(author, AuthorRequiredFields, TRUE)
    IN  IF missing # Null THEN MsgAuthorMissing \o missing
        ELSE IF ~EmailPattern(author.email)
        THEN MsgAuthor \o NumString(author.id) \o MsgInvalidEmail \o author.email
        ELSE IF ~SlugPattern(author.slug)
        THEN MsgAuthor \o NumString(author.id) \o MsgInvalidSlug \o author.slug
        ELSE Null

\* the first message other than Null, Null if there is none
FirstError(messages) ==
    LET errors == SelectSeq(messages, LAMBDA m : m # Null)
    IN  IF errors = <<>> THEN Null ELSE Head(errors)

\* validateExport: the message of the first error thrown, Null when it returns.
\* The posts are validated first, then the tags, then the users.
ValidateExport(data) ==
    IF "meta" \notin DOMAIN data THEN MsgMustContain \o ExportSections[1].name
    ELSE IF "data" \notin DOMAIN data THEN MsgMustContain \o ExportSections[2].name
    ELSE IF \E i \in 3..Len(ExportSections) : ExportSections[i].key \notin DOMAIN data.data
    THEN MsgMustContain \o
         ExportSections[SetMin({i \in 3..Len(ExportSections) :
                                  ExportSections[i].key \notin DOMAIN data.data})].name
    ELSE FirstError(
            [i \in 1..Len(data.data.posts) |-> ValidatePost(data.data.posts[i])]
         \o [i \in 1..Len(data.data.tags)  |-> ValidateTag(data.data.tags[i])]
         \o [i \in 1..Len(data.data.users) |-> ValidateAuthor(data.data.users[i])])

-----------------------------------------------------------------------------

(* SpecExport: one run of GhostExporter.exportToFile, on the posts          *)
(* Migrate.run transformed or on the posts of another caller                *)

\* the most posts a run exports
MaxPosts == 2

\* a tag of a Tumblr post
TagCats == <<"c","a","t","s">>

\* posts a blog returns: a titled post, a post with a body and a platform
\* slug, and a post whose title slugifies to '_'; the first two are both
\* tagged "cats"
MigratePosts ==
    { [SourcePost(<<"H","i">>, Null, Null, 86399) EXCEPT !.tags = <<TagCats>>],
      [SourcePost(Null, <<"o","n","e"," ","t","w","o"," ","t","h","r","e","e"," ","f","o","u","r"," ","f","i","v","e"," ","s","i","x"," ">>,
                  <<"m","y","-","c","o","o","l">>, 1700000000)
          EXCEPT !.id = <<"8">>, !.tags = <<TagCats>>],
      [SourcePost(<<"_","?">>, Null, Null, 86399) EXCEPT !.id = <<"9">>] }

\* a GhostPost another caller builds: every field of the interface that the
\* exporter reads, and the author_id the exporter expects
CallerPost(title, mobiledoc, html, slug) ==
    [ id            |-> <<"1">>,
      uuid          |-> <<"u","1">>,
      title         |-> title,
      slug          |-> slug,
      mobiledoc     |-> mobiledoc,
      html          |-> html,
      comment_id    |-> <<"1">>,
      feature_image |-> Null,
      status        |-> StatusPublished,
      published_at  |-> TimestampString(86399),
      created_at    |-> TimestampString(86399),
      updated_at    |-> TimestampString(86399),
      author_id     |-> {1} ]

CallerTitles     == { <<"T">>, <<>> }
CallerMobiledocs == { Null, <<" ">>, <<"{","}">> }
CallerHtmls      == { Null, <<"<","p",">","x","<","/","p",">">> }
CallerSlugs      == { <<"o","k">>, <<"a","_","b">> }

CallerPosts ==
    { CallerPost(t, m, h, s) :
        t \in CallerTitles, m \in CallerMobiledocs, h \in CallerHtmls, s \in CallerSlugs }

\* no AuthorConfig, the one of test-transformation.js, and one whose name is
\* empty and whose email and slug are malformed
AuthorConfigs ==
    { <<>>,
      << [ name  |-> <<"T","e","s","t"," ","A","u","t","h","o","r">>,
           email |-> <<"t","e","s","t","@","e","x","a","m","p","l","e",".","c","o","m">>,
           slug  |-> <<"t","e","s","t","-","a","u","t","h","o","r">> ] >>,
      << [ name  |-> <<>>,
           email |-> <<"b","a","d">>,
           slug  |-> <<"N","o"," ","S","l","u","g">> ] >> }

\* the values of the two Date.now() calls of a run: <<roles, exported_on>>
Clocks == { <<1, 1>>, <<1, 2>> }

\* the message of an error of the file system
IoError == <<"E","A","C","C","E","S",":"," ","p","e","r","m","i","s","s","i","o","n"," ","d","e","n","i","e","d">>

InitExport ==
    /\ tumblrPosts = <<>>
    /\ posts = <<>>
    /\ authorConfig \in AuthorConfigs
    /\ exportData = Null
    /\ outFile = NoFile
    /\ thrown = Null
    /\ epc = "start"
    /\ TitleIdle
    /\ GalleryIdle
    /\ DecodeIdle
    /\ FetchIdle
    /\ NameIdle
    /\ EscapeIdle

\* Migrate.run: const ghostPosts = posts.map(post => transformer.transform(post))
MigrateTransform ==
    /\ epc = "start"
    /\ \E n \in 0..MaxPosts :
         \E fetched \in [1..n -> MigratePosts], uuids \in [1..n -> UUIDs] :
            /\ \A i \in 1..n : ~FeatureImageThrows(fetched[i])
            /\ tumblrPosts' = fetched
            /\ posts' = [i \in 1..n |-> Transform(fetched[i], uuids[i])]
    /\ epc' = "export"
    /\ UNCHANGED <<authorConfig, exportData, outFile, thrown, titleVars, galleryVars, decodeVars, fetchVars, nameVars, escapeVars>>

\* another caller of exportToFile, its i-th post carrying the id i
CallerExport ==
    /\ epc = "start"
    /\ \E n \in 0..MaxPosts :
         \E given \in [1..n -> CallerPosts] :
            posts' = [i \in 1..n |->
                        [given[i] EXCEPT !.id = NumberString(i),
                                         !.comment_id = NumberString(i)]]
    /\ epc' = "export"
    /\ UNCHANGED <<tumblrPosts, authorConfig, exportData, outFile, thrown,
                   titleVars, galleryVars, decodeVars, fetchVars, nameVars, escapeVars>>

\* exportToFile writing the file before it validates the document
ExportToFileWriteFirst ==
    /\ epc = "export"
    /\ \E clock \in Clocks :
         LET data  == AssembleExport(posts, authorConfig, clock[1], clock[2])
             error == ValidateExport(data)
         IN  /\ exportData' = data
             /\ outFile' = [state |-> "complete", data |-> data]
             /\ IF error = Null
                THEN epc' = "done" /\ thrown' = thrown
                ELSE epc' = "failed" /\ thrown' = MsgExportFailed \o error
    /\ UNCHANGED <<tumblrPosts, posts, authorConfig, titleVars, galleryVars, decodeVars, fetchVars, nameVars, escapeVars>>

\* exportToFile up to its first await: the document is assembled and
\* validated; an error of validateExport is caught and thrown again
ExportToFile ==
    /\ epc = "export"
    /\ \E clock \in Clocks :
         LET data  == AssembleExport(posts, authorConfig, clock[1], clock[2])
             error == ValidateExport(data)
         IN  /\ exportData' = data
             /\ IF error = Null
                THEN epc' = "ensureDir" /\ thrown' = thrown
                ELSE epc' = "failed" /\ thrown' = MsgExportFailed \o error
    /\ UNCHANGED <<tumblrPosts, posts, authorConfig, outFile, titleVars, galleryVars, decodeVars, fetchVars, nameVars, escapeVars>>

\* await fs.ensureDir(outputDir)
EnsureDir ==
    /\ epc = "ensureDir"
    /\ epc' = "writeJson"
    /\ UNCHANGED <<tumblrPosts, posts, authorConfig, exportData, outFile, thrown,
                   titleVars, galleryVars, decodeVars, fetchVars, nameVars, escapeVars>>

\* fs.ensureDir rejects
EnsureDirFails ==
    /\ epc = "ensureDir"
    /\ thrown' = MsgExportFailed \o IoError
    /\ epc' = "failed"
    /\ UNCHANGED <<tumblrPosts, posts, authorConfig, exportData, outFile,
                   titleVars, galleryVars, decodeVars, fetchVars, nameVars, escapeVars>>

\* await fs.writeJson(outputPath, exportData, ...)
WriteJson ==
    /\ epc = "writeJson"
    /\ outFile' = [state |-> "complete", data |-> exportData]
    /\ epc' = "done"
    /\ UNCHANGED <<tumblrPosts, posts, authorConfig, exportData, thrown,
                   titleVars, galleryVars, decodeVars, fetchVars, nameVars, escapeVars>>

\* fs.writeJson rejects, before or after it has written a part of the file
WriteJsonFails ==
    /\ epc = "writeJson"
    /\ \/ outFile' = outFile
       \/ outFile' = [state |-> "partial", data |-> exportData]
    /\ thrown' = MsgExportFailed \o IoError
    /\ epc' = "failed"
    /\ UNCHANGED <<tumblrPosts, posts, authorConfig, exportData, titleVars, galleryVars, decodeVars, fetchVars, nameVars, escapeVars>>

NextExport ==
    \/ MigrateTransform
    \/ CallerExport
    \/ ExportToFile
    \/ EnsureDir
    \/ EnsureDirFails
    \/ WriteJson
    \/ WriteJsonFails

SpecExport == InitExport /\ [][NextExport]_vars

-----------------------------------------------------------------------------

(* Properties of transform (SpecTitle)                                     *)

\* C1: for every source post the slug of transform(post) matches
\* ^[a-z0-9-]+$, that is, it is non-empty and holds only lowercase letters,
\* digits and hyphens.  (Refuted: slugify keeps '_' and can return '', and a
\* platform slug is returned as it is.)
C1_SlugMatchesPattern ==
    tpc = "done" =>
        /\ Len(result.slug) > 0
        /\ \A i \in 1..Len(result.slug) :
              result.slug[i] \in Lowers \cup Digits \cup {"-"}

\* C2: for every source post the title of transform(post) is a non-empty
\* string, whatever combination of title, body and slug is absent, empty or
\* whitespace-only.
C2_TitleNonEmpty ==
    tpc = "done" => result.title # Null /\ Len(result.title) > 0

\* C2, its case: a post whose title is whitespace only, whose body is absent
\* and whose slug humanizes to nothing has been transformed.
C2_Witness ==
    /\ tpc = "done"
    /\ post.title = <<" ">>
    /\ post.body = Null
    /\ post.slug = <<"-">>
    /\ Len(result.title) > 0

\* The candidates of the title chain and their acceptance tests, stated from
\* the text primitives and not from extractTitle.
PlainBody == IF Truthy(post.body) THEN DecodeHtmlEntities(StripHtml(post.body)) ELSE <<>>

\* the text up to the first sentence terminator, when white space or the end follows it
FirstSentence ==
    LET text  == CleanText(PlainBody)
        ends  == {i \in 1..Len(text) : text[i] \in {".", "!", "?"}}
        first == SetMin(ends)
    IN  IF ends # {} /\ (first = Len(text) \/ text[first + 1] = " ")
        THEN Trim(SubSeq(text, 1, first))
        ELSE <<>>

\* the first 10 words of the body, those of length <= 1 removed
FirstWords ==
    LET all == SplitWs(CleanText(PlainBody))
    IN  SelectSeq(SubSeq(all, 1, IF Len(all) < 10 THEN Len(all) ELSE 10),
                  LAMBDA w : Len(w) >= 2)

SlugCandidate ==
    IF Truthy(post.slug) THEN TruncateToWords(HumanizeSlug(post.slug), 12) ELSE <<>>

TitleAccepted    == Truthy(post.title) /\ Trim(post.title) # <<>>
SentenceAccepted == Len(FirstSentence) > 10 /\ Len(SplitWs(FirstSentence)) > 3
WordsAccepted    == Len(FirstWords) >= 3
SlugAccepted     == Len(SlugCandidate) > 5

\* C10: the title is the first accepted candidate in the order (1) trimmed
\* explicit title if non-empty, (2a) first sentence of the tag-stripped,
\* entity-decoded body if longer than 10 characters and of more than 3 words,
\* (2b) the first 10 body words without those of length <= 1 if at least 3
\* remain, (3) the humanized slug truncated to 12 words if longer than 5
\* characters, (4) the date; a later candidate is never returned when an
\* earlier one is acceptable.
C10_FirstAcceptedCandidate ==
    tpc = "done" =>
        result.title =
            IF TitleAccepted THEN Trim(post.title)
            ELSE IF SentenceAccepted THEN FirstSentence
            ELSE IF WordsAccepted THEN JoinSpace(FirstWords)
            ELSE IF SlugAccepted THEN SlugCandidate
            ELSE <<"P","o","s","t"," ","f","r","o","m"," ">> \o IsoDate(post.timestamp)

\* C10, its case: no title, a first sentence that is refused, first words and
\* a slug that are both acceptable, and the first words returned.
C10_Witness ==
    /\ tpc = "done"
    /\ ~TitleAccepted
    /\ FirstSentence # <<>>
    /\ ~SentenceAccepted
    /\ WordsAccepted
    /\ SlugAccepted
    /\ result.title = JoinSpace(FirstWords)

-----------------------------------------------------------------------------
(* Properties of the gallery repacking (SpecGallery)                       *)

\* the images of a list of rows, in order
ImagesOf(rows) == Flatten(rows)

\* C3: gallery repacking never loses or reorders images: for any sequence of
\* rows of one or more images each, the concatenation of the emitted rows is
\* the concatenation of the input rows.  (Refuted: a buffer left with two or
\* more images after the loop is dropped.)
C3_NoImageLostOrReordered ==
    gpc = "done" => ImagesOf(ghostRows) = ImagesOf(galleryRows)

\* C4 as stated: four single-image rows [A],[B],[C],[D] give the rows
\* [A,B,C] and [D].
C4_FourSinglesGiveThreeOne ==
    gpc = "done" /\ galleryRows = <<<<1>>, <<2>>, <<3>>, <<4>>>>
        => ghostRows = <<<<1, 2, 3>>, <<4>>>>

\* C4, amended: four single-image rows [A],[B],[C],[D] give exactly the two
\* rows [A,B] and [C,D] (row sizes [2,2]): the buffer is flushed as soon as
\* it holds 2 images.
C4_FourSinglesGiveTwoTwo ==
    gpc = "done" /\ galleryRows = <<<<1>>, <<2>>, <<3>>, <<4>>>>
        => ghostRows = <<<<1, 2>>, <<3, 4>>>>

\* C4, its case: the four single-image rows have been repacked into two rows.
C4_Witness ==
    /\ gpc = "done"
    /\ galleryRows = <<<<1>>, <<2>>, <<3>>, <<4>>>>
    /\ Len(ghostRows) = 2

\* C5: when repacking ends with exactly one image in the buffer, that image
\* is appended to the last emitted row if that row holds exactly 2 images,
\* and is otherwise emitted as a row of its own; rows [A,B],[C] yield the
\* single row [A,B,C].
C5_SingleLeftover ==
    /\ [][ gpc = "leftover" /\ Len(currentRow) = 1 =>
             IF ghostRows # <<>> /\ Len(ghostRows[Len(ghostRows)]) = 2
             THEN /\ Len(ghostRows') = Len(ghostRows)
                  /\ \A i \in 1..(Len(ghostRows) - 1) : ghostRows'[i] = ghostRows[i]
                  /\ ghostRows'[Len(ghostRows)] =
                        ghostRows[Len(ghostRows)] \o currentRow
             ELSE ghostRows' = ghostRows \o <<currentRow>> ]_vars
    /\ [](gpc = "done" /\ galleryRows = <<<<1, 2>>, <<3>>>>
            => ghostRows = <<<<1, 2, 3>>>>)

\* C5, its case: rows [A,B],[C] have been repacked, the leftover C merged.
C5_Witness ==
    /\ gpc = "done"
    /\ galleryRows = <<<<1, 2>>, <<3>>>>
    /\ currentRow = <<3>>
    /\ ghostRows = <<<<1, 2, 3>>>>

-----------------------------------------------------------------------------
(* Properties of the export (SpecExport)                                   *)

\* exportToFile has assembled and validated the document
Validated == epc \in {"ensureDir", "writeJson", "done", "failed"}

\* validateExport threw: exportToFile failed, and not on the file system
ValidationFailed == epc = "failed" /\ thrown # MsgExportFailed \o IoError

NonEmpty(s) == s # Null /\ Len(s) > 0
NonBlank(s) == s # Null /\ \E i \in 1..Len(s) : s[i] \notin {" ", "\n", "\t"}

\* C6: round trip: for any N >= 0 source posts, the document assembled from
\* the posts transform returned passes validateExport with no error whenever
\* every transformed post has non-empty id, title, slug, content, status and
\* published_at.  (Refuted: transform leaves mobiledoc null, which
\* validatePost requires.)
C6_RoundTripValidates ==
    ( /\ Validated
      /\ Len(tumblrPosts) = Len(posts)
      /\ \A i \in 1..Len(posts) :
            /\ NonEmpty(posts[i].id)
            /\ NonEmpty(posts[i].title)
            /\ NonEmpty(posts[i].slug)
            /\ NonEmpty(posts[i].mobiledoc) \/ NonEmpty(posts[i].html)
            /\ NonEmpty(posts[i].status)
            /\ NonEmpty(posts[i].published_at) )
    => ~ValidationFailed

\* Every violation a document holds, each with the entity and the field it is
\* about and the message that reports it: the posts first, then the tags,
\* then the users, each in document order; within an entity the missing
\* required fields in their listed order, then the malformed fields.
KeysOf(required) == {required[i].key : i \in 1..Len(required)}

MissingOf(required, prefix, idText, absent) ==
    [i \in 1..Len(required) |->
        [ id      |-> idText,
          field   |-> required[i].name,
          message |-> prefix \o required[i].name,
          holds   |-> required[i].key \in absent ]]

PostChecks(p) ==
    MissingOf(PostRequiredFields, MsgPostMissing, MsgPost \o p.id,
              {key \in KeysOf(PostRequiredFields) : ~NonEmpty(p[key])})
    \o << [ id      |-> MsgPost \o p.id,
            field   |-> <<"m","o","b","i","l","e","d","o","c">>,
            message |-> MsgPost \o p.id \o MsgEmptyMobiledoc,
            holds   |-> NonEmpty(p.mobiledoc) /\ ~NonBlank(p.mobiledoc) ],
          [ id      |-> MsgPost \o p.id,
            field   |-> <<"s","l","u","g">>,
            message |-> MsgPost \o p.id \o MsgInvalidSlug \o p.slug,
            holds   |-> ~SlugPattern(p.slug) ] >>

TagChecks(t) ==
    MissingOf(TagRequiredFields, MsgTagMissing, MsgTag \o NumString(t.id),
              {key \in KeysOf(TagRequiredFields) :
                  IF key = "id" THEN t.id \in {{}, {0}} ELSE ~NonEmpty(t[key])})
    \o << [ id      |-> MsgTag \o NumString(t.id),
            field   |-> <<"s","l","u","g">>,
            message |-> MsgTag \o NumString(t.id) \o MsgInvalidSlug \o t.slug,
            holds   |-> NonEmpty(t.slug) /\ ~SlugPattern(t.slug) ] >>

AuthorChecks(a) ==
    MissingOf(AuthorRequiredFields, MsgAuthorMissing, MsgAuthor \o NumString(a.id),
              {key \in KeysOf(AuthorRequiredFields) :
                  IF key = "id" THEN a.id \in {{}, {0}} ELSE ~NonEmpty(a[key])})
    \o << [ id      |-> MsgAuthor \o NumString(a.id),
            field   |-> <<"e","m","a","i","l">>,
            message |-> MsgAuthor \o NumString(a.id) \o MsgInvalidEmail \o a.email,
            holds   |-> NonEmpty(a.email) /\ ~EmailPattern(a.email) ],
          [ id      |-> MsgAuthor \o NumString(a.id),
            field   |-> <<"s","l","u","g">>,
            message |-> MsgAuthor \o NumString(a.id) \o MsgInvalidSlug \o a.slug,
            holds   |-> NonEmpty(a.slug) /\ ~SlugPattern(a.slug) ] >>

AllViolations ==
    LET d == exportData.data
    IN  SelectSeq(
            Flatten([i \in 1..Len(d.posts) |-> PostChecks(d.posts[i])])
         \o Flatten([i \in 1..Len(d.tags)  |-> TagChecks(d.tags[i])])
         \o Flatten([i \in 1..Len(d.users) |-> AuthorChecks(d.users[i])]),
            LAMBDA v : v.holds)

\* whether the text sub occurs in the text s
Contains(s, sub) ==
    \E i \in 1..(Len(s) - Len(sub) + 1) : SubSeq(s, i, i + Len(sub) - 1) = sub

FitButForContent ==
    /\ Len(posts) > 0
    /\ \A i \in 1..Len(posts) :
          /\ NonEmpty(posts[i].id)
          /\ NonEmpty(posts[i].title)
          /\ NonEmpty(posts[i].status)
          /\ NonEmpty(posts[i].published_at)
          /\ SlugPattern(posts[i].slug)
          /\ AuthorIdOf(posts[i]) = {1}
    /\ authorConfig \in {<<>>, << [ name  |-> <<"T","e","s","t"," ","A","u","t","h","o","r">>,
                                    email |-> <<"t","e","s","t","@","e","x","a","m","p","l","e",".","c","o","m">>,
                                    slug  |-> <<"t","e","s","t","-","a","u","t","h","o","r">> ] >>}

\* C9 as stated: a post is accepted when it carries at least one non-empty
\* content field, mobiledoc or html, and is rejected for missing content only
\* when both are absent or empty.
C9_EitherContentAccepted ==
    Validated /\ FitButForContent =>
        (~ValidationFailed <=>
            \A i \in 1..Len(posts) :
                NonEmpty(posts[i].mobiledoc) \/ NonEmpty(posts[i].html))

\* C9, amended: a post is accepted only when its mobiledoc is a non-empty
\* string with a character other than white space; html is not consulted, and
\* a post that carries html alone is rejected.
C9_MobiledocRequired ==
    Validated /\ FitButForContent =>
        (~ValidationFailed <=> \A i \in 1..Len(posts) : NonBlank(posts[i].mobiledoc))

\* C9, its case: a single post fit in all but its content, with html and no
\* mobiledoc, has been rejected.
C9_Witness ==
    /\ Validated
    /\ FitButForContent
    /\ Len(posts) = 1
    /\ posts[1].mobiledoc = Null
    /\ NonEmpty(posts[1].html)
    /\ ValidationFailed

-----------------------------------------------------------------------------
(* Examples of the title chain (SpecTitle)                                 *)

\* C11: for a post with empty title, empty slug and the body
\* "<p>Hello world. More text.</p>", the derived title is "Hello world.", the
\* first sentence of the body.  (Refuted: that sentence has two words, and a
\* first sentence is accepted only with more than three.)
C11_HelloWorldSentence ==
    (tpc = "done" /\ post.title = <<>> /\ post.slug = <<>> /\ post.body = HelloBody)
        => result.title = <<"H","e","l","l","o"," ","w","o","r","l","d",".">>

\* C11 as the code has it: the title of that post is the first ten words of the
\* body, "Hello world. More text.": its first sentence "Hello world." is longer
\* than 10 characters but has only two words.
C11_HelloWorldFirstWords ==
    (tpc = "done" /\ post.title = <<>> /\ post.slug = <<>> /\ post.body = HelloBody)
        => /\ FirstSentence = <<"H","e","l","l","o"," ","w","o","r","l","d",".">>
           /\ Len(FirstSentence) > 10
           /\ Len(SplitWs(FirstSentence)) = 2
           /\ result.title = <<"H","e","l","l","o"," ","w","o","r","l","d","."," ","M","o","r","e"," ","t","e","x","t",".">>

\* C11, its case: that post has been transformed
C11_Witness ==
    /\ tpc = "done"
    /\ post.title = <<>>
    /\ post.slug = <<>>
    /\ post.body = HelloBody
    /\ Len(result.title) = 23

\* a post with no title and no body: each is absent or ''
NoTitleNoBody ==
    /\ post.title \in {Null, <<>>}
    /\ post.body \in {Null, <<>>}

\* C12: for a post with empty title and empty body, the title is the humanized
\* slug (hyphens replaced by spaces, first letter of each word capitalised, at
\* most 12 words; "my-cool-post" gives "My Cool Post") when that string is
\* longer than 5 characters, and otherwise "Post from YYYY-MM-DD" with the UTC
\* calendar date of the post timestamp (1700000000 gives "Post from 2023-11-14").
C12_SlugThenDate ==
    (tpc = "done" /\ NoTitleNoBody) =>
        /\ result.title = IF SlugAccepted THEN SlugCandidate
                          ELSE <<"P","o","s","t"," ","f","r","o","m"," ">> \o IsoDate(post.timestamp)
        /\ SlugAccepted =>
              /\ \A i \in 1..Len(result.title) : result.title[i] # "-"
              /\ Len(SplitWs(result.title)) <= 12
              /\ \A i \in 1..Len(result.title) :
                    (i = 1 \/ result.title[i - 1] = " ") => result.title[i] \notin Lowers
              /\ LET letters == RemoveChars(ToLowerCase(result.title), WordChars)
                     given   == RemoveChars(post.slug, WordChars)
                 IN  /\ Len(letters) <= Len(given)
                     /\ letters = SubSeq(given, 1, Len(letters))
        /\ post.slug = MyCoolPostSlug => result.title = <<"M","y"," ","C","o","o","l"," ","P","o","s","t">>
        /\ (post.slug \in {Null, <<>>} /\ post.timestamp = 1700000000)
              => result.title = <<"P","o","s","t"," ","f","r","o","m"," ","2","0","2","3","-","1","1","-","1","4">>
        /\ (post.slug \in {Null, <<>>} /\ post.timestamp = 86399)
              => result.title = <<"P","o","s","t"," ","f","r","o","m"," ","1","9","7","0","-","0","1","-","0","1">>

\* C12, its case: a slug of more than 12 words, cut to 12 in the title
C12_Witness ==
    /\ tpc = "done"
    /\ NoTitleNoBody
    /\ Truthy(post.slug)
    /\ Len(SplitWs(HumanizeSlug(post.slug))) > 12
    /\ Len(SplitWs(result.title)) = 12

-----------------------------------------------------------------------------
(* SpecDecode: decodeHtmlEntities applied to a string, then to its result  *)

\* the most tokens a string holds
MaxDecodeTokens == 3

DecodeTokens ==
    { <<"&","a","m","p",";">>, <<"&","l","t",";">>, <<"l","t",";">>,
      <<"&">>, <<"a","m","p",";">>, <<"&","#","3","9",";">>,
      <<"&","h","e","l","l","i","p",";">>, <<"&","x",";">>, <<"a">> }

InitDecode ==
    /\ \E n \in 0..MaxDecodeTokens :
         \E ts \in [1..n -> DecodeTokens] : entityText = Flatten(ts)
    /\ decoded = <<>>
    /\ dpc = "start"
    /\ TitleIdle
    /\ GalleryIdle
    /\ ExportIdle
    /\ FetchIdle
    /\ NameIdle
    /\ EscapeIdle

\* this.decodeHtmlEntities(...), of the text first and of its own result then
Decode ==
    /\ dpc = "start"
    /\ decoded' = Append(decoded,
                         DecodeHtmlEntities(IF decoded = <<>> THEN entityText
                                            ELSE Last(decoded)))
    /\ dpc' = IF decoded = <<>> THEN "start" ELSE "done"
    /\ UNCHANGED <<entityText, titleVars, galleryVars, exportVars, fetchVars, nameVars, escapeVars>>

NextDecode == Decode

SpecDecode == InitDecode /\ [][NextDecode]_vars

-----------------------------------------------------------------------------
(* Properties of the entity decoding (SpecDecode)                          *)

AmpEntity == <<"&","a","m","p",";">>

\* C13: entity decoding is idempotent: for every string s,
\* decodeHtmlEntities(decodeHtmlEntities(s)) equals decodeHtmlEntities(s).
\* (Refuted: "&amp;lt;" decodes to "&lt;", and that to "<".)
C13_DecodeIdempotent ==
    dpc = "done" => decoded[2] = decoded[1]

\* C13 as the code has it: decoding is one pass, and what replaces a match is
\* not scanned again.  A second decoding changes nothing for a string without
\* "&amp;", the one entity whose replacement can begin a new entity; with it the
\* second decoding can go on: "&amp;lt;" gives "&lt;" and then "<".
C13_DecodeIdempotentWithoutAmp ==
    dpc = "done" =>
        /\ (\A i \in 1..Len(entityText) : ~IsAt(entityText, i, AmpEntity)) => decoded[2] = decoded[1]
        /\ entityText = <<"&","a","m","p",";","l","t",";">> => decoded = << <<"&","l","t",";">>, <<"<">> >>

\* C13, its case: a string with entities but no "&amp;" has been decoded twice,
\* and the first decoding changed it
C13_Witness ==
    /\ dpc = "done"
    /\ \A i \in 1..Len(entityText) : ~IsAt(entityText, i, AmpEntity)
    /\ decoded[1] # entityText
    /\ decoded[2] = decoded[1]

-----------------------------------------------------------------------------
(* Posts of an unrecognised type (SpecTitle)                               *)

\* C14: a post whose type is not one of the eight recognised types (for
\* example "poll") is transformed without throwing, and its content fragment
\* is a visible placeholder that contains the literal type name.  (Refuted:
\* convertToHtml does not read the type; a "poll" post without a body gets the
\* empty paragraph.)
C14_UnrecognisedTypePlaceholder ==
    (tpc = "done" /\ post.type \notin RecognisedTypes)
        => Contains(result.html, post.type)

-----------------------------------------------------------------------------
(* Tags and users of the assembled document (SpecExport)                   *)

\* the posts Migrate.run fetched have been transformed, and the document
\* assembled from them
MigrateAssembled == Validated /\ Len(tumblrPosts) = Len(posts) /\ Len(posts) > 0

\* the entries of data.tags whose slug is the given one
TagEntries(slug) ==
    {k \in 1..Len(exportData.data.tags) : exportData.data.tags[k].slug = slug}

\* C15: tags are deduplicated by slug over the whole post collection: two
\* posts sharing a tag slug yield exactly one entry in data.tags (the
\* first-seen tag's fields win) and exactly two posts_tags rows, one per post.
\* (Refuted: the tags of the posts never reach the document, whose only tag is
\* the fixed "imported".)
C15_SharedTagOnce ==
    MigrateAssembled =>
        \A i, j \in 1..Len(tumblrPosts) :
            \A t \in Range(tumblrPosts[i].tags) \cap Range(tumblrPosts[j].tags) :
                (i < j /\ tumblrPosts[i].id # tumblrPosts[j].id) =>
                    /\ Cardinality(TagEntries(t)) = 1
                    /\ \A k \in TagEntries(t) :
                          \A p \in {i, j} :
                             Cardinality({r \in 1..Len(exportData.data.posts_tags) :
                                /\ exportData.data.posts_tags[r].tag_id = exportData.data.tags[k].id
                                /\ exportData.data.posts_tags[r].post_id = posts[p].id}) = 1

\* C16: for any batch of posts, data.users of the assembled document holds
\* exactly one user, built from the configured author (name, email, slug, or
\* the fixed defaults when unset), and every post is linked to that same user.
\* (Refuted: the user is keyed by post.author_id, which transform never sets,
\* so the user of a migrated batch has no id to be linked by; an empty batch
\* has no user.)
C16_OneConfiguredUser ==
    (Validated /\ Len(tumblrPosts) = Len(posts)) =>
        LET users == exportData.data.users
            links == exportData.data.posts_authors
        IN  /\ Len(users) = 1
            /\ users[1].name = ConfigOr(authorConfig, "name", DefaultAuthorName)
            /\ users[1].email = ConfigOr(authorConfig, "email", DefaultAuthorEmail)
            /\ users[1].slug = ConfigOr(authorConfig, "slug", DefaultAuthorSlug)
            /\ users[1].id # Undefined
            /\ Len(links) = Len(posts)
            /\ \A i \in 1..Len(posts) :
                  links[i].post_id = posts[i].id /\ links[i].author_id = users[1].id

-----------------------------------------------------------------------------
(* SpecFetch: one run of Migrate.run: TumblrAPI.fetchAllPosts against a    *)
(* server that answers each request with a page, a last page, an empty     *)
(* page or an error, then the transform of the posts and exportToFile      *)

\* Math.min(20, ...): the most posts one request asks for
PageLimit == 20

\* the most posts a response holds, and the most requests the server answers
\* with a page that has a successor
MaxPageSize == 2
MaxRequests == 3

\* flags.limit
FetchLimits == {0, 2, 3, 25}

\* _links.next.query_params.before of a response that has one
Cursors == {{86399}, {86398}}

\* the milliseconds of this.delay(1000)
DelayMs == 1000

Min(a, b) == IF a < b THEN a ELSE b

\* the k posts the server sends after the n it has sent: the blog's posts
\* carry their rank in the blog as id
ServedPosts(n, k) ==
    [i \in 1..k |->
        [SourcePost(<<"H","i">>, Null, Null, 86399) EXCEPT !.id = NumberString(n + i)]]

\* the values of the uuidv4() calls of one posts.map
UuidStreams(n) ==
    {[i \in 1..n |-> <<"u">> \o NumberString(i + k)] : k \in {0, 1}}

InitFetch ==
    /\ fetchLimit \in FetchLimits
    /\ fetchedPosts = <<>>
    /\ totalFetched = 0
    /\ before = {}
    /\ requests = <<>>
    /\ fpc = "loop"
    /\ tumblrPosts = <<>>
    /\ posts = <<>>
    /\ authorConfig \in AuthorConfigs
    /\ exportData = Null
    /\ outFile = NoFile
    /\ thrown = Null
    /\ epc = "idle"
    /\ TitleIdle
    /\ GalleryIdle
    /\ DecodeIdle
    /\ NameIdle
    /\ EscapeIdle

\* the outcome of the request in flight is recorded with the request
Answered(outcome, count) ==
    [requests EXCEPT ![Len(requests)] = [@ EXCEPT !.outcome = outcome, !.count = count]]

\* the request asking for a full page whatever the limit leaves
FetchRequestFullPage ==
    /\ fpc = "loop"
    /\ totalFetched < fetchLimit
    /\ requests' = Append(requests,
                          [ limit   |-> PageLimit,
                            before  |-> before,
                            fetched |-> totalFetched,
                            outcome |-> "pending",
                            count   |-> 0,
                            next    |-> {},
                            waited  |-> 0 ])
    /\ fpc' = "await"
    /\ UNCHANGED <<fetchLimit, fetchedPosts, totalFetched, before,
                   titleVars, galleryVars, exportVars, decodeVars, nameVars, escapeVars>>

\* `while (totalFetched < limit)` holds: this.fetchPosts(blogName, {limit:
\* Math.min(20, limit - totalFetched), before, includePrivate}) is called
FetchRequest ==
    /\ fpc = "loop"
    /\ totalFetched < fetchLimit
    /\ requests' = Append(requests,
                          [ limit   |-> Min(PageLimit, fetchLimit - totalFetched),
                            before  |-> before,
                            fetched |-> totalFetched,
                            outcome |-> "pending",
                            count   |-> 0,
                            next    |-> {},
                            waited  |-> 0 ])
    /\ fpc' = "await"
    /\ UNCHANGED <<fetchLimit, fetchedPosts, totalFetched, before,
                   titleVars, galleryVars, exportVars, decodeVars, nameVars, escapeVars>>

\* `while (totalFetched < limit)` fails: return posts
FetchLimitReached ==
    /\ fpc = "loop"
    /\ ~(totalFetched < fetchLimit)
    /\ fpc' = "returned"
    /\ UNCHANGED <<fetchLimit, fetchedPosts, totalFetched, before, requests,
                   titleVars, galleryVars, exportVars, decodeVars, nameVars, escapeVars>>

\* the page whose posts are pushed but not counted
FetchPageNoCount ==
    /\ fpc = "await"
    /\ Len(requests) < MaxRequests
    /\ \E k \in 1..MaxPageSize, c \in Cursors :
         /\ fetchedPosts' = fetchedPosts \o ServedPosts(Len(fetchedPosts), k)
         /\ before' = c
         /\ requests' = [Answered("page", k) EXCEPT ![Len(requests)].next = c]
    /\ fpc' = "delay"
    /\ UNCHANGED <<fetchLimit, totalFetched, titleVars, galleryVars, exportVars, decodeVars, nameVars, escapeVars>>

\* a response with posts and a next cursor: the posts are pushed, the cursor
\* kept, and the loop goes on after the delay
FetchPage ==
    /\ fpc = "await"
    /\ Len(requests) < MaxRequests
    /\ \E k \in 1..MaxPageSize, c \in Cursors :
         /\ fetchedPosts' = fetchedPosts \o ServedPosts(Len(fetchedPosts), k)
         /\ totalFetched' = totalFetched + k
         /\ before' = c
         /\ requests' = [Answered("page", k) EXCEPT ![Len(requests)].next = c]
    /\ fpc' = "delay"
    /\ UNCHANGED <<fetchLimit, titleVars, galleryVars, exportVars, decodeVars, nameVars, escapeVars>>

\* a response with posts and no next cursor: the posts are pushed, then break
FetchLastPage ==
    /\ fpc = "await"
    /\ \E k \in 1..MaxPageSize :
         /\ fetchedPosts' = fetchedPosts \o ServedPosts(Len(fetchedPosts), k)
         /\ totalFetched' = totalFetched + k
         /\ requests' = Answered("last", k)
    /\ fpc' = "returned"
    /\ UNCHANGED <<fetchLimit, before, titleVars, galleryVars, exportVars, decodeVars, nameVars, escapeVars>>

\* a response without posts: break
FetchEmptyPage ==
    /\ fpc = "await"
    /\ requests' = Answered("empty", 0)
    /\ fpc' = "returned"
    /\ UNCHANGED <<fetchLimit, fetchedPosts, totalFetched, before,
                   titleVars, galleryVars, exportVars, decodeVars, nameVars, escapeVars>>

\* the failure that returns nothing of what was fetched
FetchFailsDiscarding ==
    /\ fpc = "await"
    /\ requests' = Answered("failed", 0)
    /\ fetchedPosts' = <<>>
    /\ fpc' = "returned"
    /\ UNCHANGED <<fetchLimit, totalFetched, before,
                   titleVars, galleryVars, exportVars, decodeVars, nameVars, escapeVars>>

\* fetchPosts throws (a timeout, a rejection, a status other than 200): the
\* catch block logs the error, then break
FetchFails ==
    /\ fpc = "await"
    /\ requests' = Answered("failed", 0)
    /\ fpc' = "returned"
    /\ UNCHANGED <<fetchLimit, fetchedPosts, totalFetched, before,
                   titleVars, galleryVars, exportVars, decodeVars, nameVars, escapeVars>>

\* the loop going on with no delay
FetchNoDelay ==
    /\ fpc = "delay"
    /\ fpc' = "loop"
    /\ UNCHANGED <<fetchLimit, fetchedPosts, totalFetched, before, requests,
                   titleVars, galleryVars, exportVars, decodeVars, nameVars, escapeVars>>

\* await this.delay(1000): the loop goes on when the timer has run, and the
\* time waited is recorded with the request just answered
FetchDelay ==
    /\ fpc = "delay"
    /\ requests' = [requests EXCEPT ![Len(requests)].waited = DelayMs]
    /\ fpc' = "loop"
    /\ UNCHANGED <<fetchLimit, fetchedPosts, totalFetched, before,
                   titleVars, galleryVars, exportVars, decodeVars, nameVars, escapeVars>>

\* the transform of the posts in the reverse of their order
RunTransformReversed ==
    /\ fpc = "returned"
    /\ \E uuids \in UuidStreams(Len(fetchedPosts)) :
         posts' = [i \in 1..Len(fetchedPosts) |->
                     Transform(fetchedPosts[Len(fetchedPosts) + 1 - i], uuids[i])]
    /\ tumblrPosts' = fetchedPosts
    /\ fpc' = "createDirs"
    /\ UNCHANGED <<fetchLimit, fetchedPosts, totalFetched, before, requests,
                   authorConfig, exportData, outFile, thrown, epc,
                   titleVars, galleryVars, decodeVars, nameVars, escapeVars>>

\* the transform of the posts fetched so far, as soon as a page has come
RunTransformEarly ==
    /\ fpc \in {"delay", "returned"}
    /\ \E uuids \in UuidStreams(Len(fetchedPosts)) :
         posts' = [i \in 1..Len(fetchedPosts) |-> Transform(fetchedPosts[i], uuids[i])]
    /\ tumblrPosts' = fetchedPosts
    /\ fpc' = IF fpc = "delay" THEN "loop" ELSE "createDirs"
    /\ UNCHANGED <<fetchLimit, fetchedPosts, totalFetched, before, requests,
                   authorConfig, exportData, outFile, thrown, epc,
                   titleVars, galleryVars, decodeVars, nameVars, escapeVars>>

\* Migrate.run: const ghostPosts = posts.map(post => transformer.transform(post))
\* on the posts fetchAllPosts returned
RunTransform ==
    /\ fpc = "returned"
    /\ \E uuids \in UuidStreams(Len(fetchedPosts)) :
         posts' = [i \in 1..Len(fetchedPosts) |-> Transform(fetchedPosts[i], uuids[i])]
    /\ tumblrPosts' = fetchedPosts
    /\ fpc' = "createDirs"
    /\ UNCHANGED <<fetchLimit, fetchedPosts, totalFetched, before, requests,
                   authorConfig, exportData, outFile, thrown, epc,
                   titleVars, galleryVars, decodeVars, nameVars, escapeVars>>

\* Migrate.run: await fs.ensureDir(outputDir), then exporter.exportToFile is called
RunCreateDirs ==
    /\ fpc = "createDirs"
    /\ fpc' = "export"
    /\ epc' = "export"
    /\ UNCHANGED <<fetchLimit, fetchedPosts, totalFetched, before, requests,
                   tumblrPosts, posts, authorConfig, exportData, outFile, thrown,
                   titleVars, galleryVars, decodeVars, nameVars, escapeVars>>

\* Migrate.run: fs.ensureDir rejects, and the run ends in its catch block
RunCreateDirsFails ==
    /\ fpc = "createDirs"
    /\ fpc' = "failed"
    /\ thrown' = IoError
    /\ UNCHANGED <<fetchLimit, fetchedPosts, totalFetched, before, requests,
                   tumblrPosts, posts, authorConfig, exportData, outFile, epc,
                   titleVars, galleryVars, decodeVars, nameVars, escapeVars>>

NextFetch ==
    \/ FetchRequest
    \/ FetchLimitReached
    \/ FetchPage
    \/ FetchLastPage
    \/ FetchEmptyPage
    \/ FetchFails
    \/ FetchDelay
    \/ RunTransform
    \/ RunCreateDirs
    \/ RunCreateDirsFails
    \/ ExportToFile
    \/ EnsureDir
    \/ EnsureDirFails
    \/ WriteJson
    \/ WriteJsonFails

SpecFetch == InitFetch /\ [][NextFetch]_vars

-----------------------------------------------------------------------------
(* Properties of the fetch loop and of the run (SpecFetch)                 *)

\* fetchAllPosts has returned
FetchReturned == fpc \in {"returned", "createDirs", "export", "failed"}

\* the posts have been handed to the transformer
RunTransformed == fpc \in {"createDirs", "export", "failed"}

\* how many posts the answers to the first n requests held
RECURSIVE PostsReceived(_)
PostsReceived(n) ==
    IF n = 0 THEN 0 ELSE PostsReceived(n - 1) + requests[n].count

C18_FetchStops ==
    /\ \A k \in 1..Len(requests) :
          /\ requests[k].fetched = PostsReceived(k - 1)
          /\ requests[k].fetched < fetchLimit
          /\ requests[k].limit = Min(20, fetchLimit - requests[k].fetched)
          /\ requests[k].limit >= 1
          /\ k < Len(requests) =>
                requests[k].outcome = "page" /\ requests[k].count >= 1
    /\ (FetchReturned /\ \A k \in 1..Len(requests) : requests[k].count <= requests[k].limit)
          => Len(fetchedPosts) <= fetchLimit

\* C18, its case: with a limit of 3 a page of 2 posts was followed by a
\* request for 1 post, whose page ended the fetch at the limit, though a next
\* cursor came with it
C18_Witness ==
    /\ FetchReturned
    /\ fetchLimit = 3
    /\ Len(requests) = 2
    /\ requests[1].count = 2
    /\ requests[2].limit = 1
    /\ requests[2].outcome = "page"
    /\ Len(fetchedPosts) = 3

\* C19: a page request that fails with a transient error (network timeout,
\* rate-limit rejection) is retried by the fetcher after a fixed delay, and the
\* failure does not end the fetch: after a failed request the fetcher waits
\* and asks again.  (Refuted: the catch block of the loop breaks out of it.)
C19_FailedRequestRetried ==
    \A k \in 1..Len(requests) :
        requests[k].outcome = "failed"
            => k < Len(requests) \/ fpc \in {"delay", "loop"}

\* C20: data.posts of the exported document holds exactly one post per fetched
\* post, in fetch order: for every i the i-th exported post is the transform
\* of the i-th fetched post, and no post is dropped or duplicated between
\* fetch and export.
C20_ExportInFetchOrder ==
    /\ Validated =>
          /\ Len(exportData.data.posts) = Len(fetchedPosts)
          /\ \A i \in 1..Len(fetchedPosts) :
                \E uuids \in UuidStreams(Len(fetchedPosts)) :
                    exportData.data.posts[i] = Transform(fetchedPosts[i], uuids[i])
          /\ \A i, j \in 1..Len(fetchedPosts) :
                exportData.data.posts[i].id = exportData.data.posts[j].id => i = j
    /\ outFile.state = "complete" =>
          outFile.data.data.posts = exportData.data.posts

\* C20, its case: three posts fetched in two pages are in the document in
\* the order fetched
C20_Witness ==
    /\ Validated
    /\ Len(requests) = 2
    /\ requests[1].count = 2
    /\ Len(fetchedPosts) = 3
    /\ exportData.data.posts[1].id = <<"1">>
    /\ exportData.data.posts[2].id = <<"2">>
    /\ exportData.data.posts[3].id = <<"3">>

-----------------------------------------------------------------------------
(* SpecName: Migrate.run chooses the output path (the later migrate        *)
(* command, which derives the default file name from the blog name)        *)

TumblrSuffix == <<".","t","u","m","b","l","r",".","c","o","m">>

\* blogName.replace(/\.tumblr\.com$/i, '')
RemoveTumblrSuffix(blogName_) ==
    IF /\ Len(blogName_) >= Len(TumblrSuffix)
       /\ ToLowerCase(SubSeq(blogName_, Len(blogName_) - Len(TumblrSuffix) + 1,
                             Len(blogName_))) = TumblrSuffix
    THEN SubSeq(blogName_, 1, Len(blogName_) - Len(TumblrSuffix))
    ELSE blogName_

\* [a-zA-Z0-9-_], the characters sanitizeBlogName keeps
FileNameChars == Lowers \cup Uppers \cup Digits \cup {"-", "_"}

\* s.replace(/[^a-zA-Z0-9-_]/g, '-')
ReplaceInvalidChars(s) ==
    [i \in 1..Len(s) |-> IF s[i] \in FileNameChars THEN s[i] ELSE "-"]

\* s.replace(/^-|-$/g, ''): one hyphen at the start and one at the end go
RemoveEdgeHyphens(s) ==
    SubSeq(s, IF s # <<>> /\ s[1] = "-" THEN 2 ELSE 1,
              IF s # <<>> /\ s[Len(s)] = "-" THEN Len(s) - 1 ELSE Len(s))

SanitizeBlogName(blogName_) ==
    ToLowerCase(RemoveEdgeHyphens(ReplaceRuns(
        ReplaceInvalidChars(RemoveTumblrSuffix(blogName_)), {"-"}, "-")))

\* `./${this.sanitizeBlogName(blogName)}.json`
DefaultOutput(blogName_) ==
    <<".", "/">> \o SanitizeBlogName(blogName_) \o <<".", "j", "s", "o", "n">>

\* the most tokens a blog name holds
MaxNameTokens == 3

NameTokens == { <<"a">>, <<"B">>, <<"_">>, <<"-">>, <<"!">>, <<"7">>, TumblrSuffix }

JohnsBlog == <<"j","o","h","n","s","_","b","l","o","g">>

BlogNames ==
    UNION {TokenStrings(NameTokens, n) : n \in 0..MaxNameTokens}
        \cup {<<>>, JohnsBlog \o TumblrSuffix}

OutputFlags == {Null, <<>>, <<".","/","o",".","j","s","o","n">>}

InitName ==
    /\ blogName \in BlogNames
    /\ flagsOutput \in OutputFlags
    /\ outputPath = Null
    /\ npc = "start"
    /\ TitleIdle
    /\ GalleryIdle
    /\ ExportIdle
    /\ DecodeIdle
    /\ FetchIdle
    /\ EscapeIdle

\* Migrate.run, `if (!blogName)`: no blog name, the command reports and exits
NoBlogName ==
    /\ npc = "start"
    /\ ~Truthy(blogName)
    /\ npc' = "exited"
    /\ UNCHANGED <<blogName, flagsOutput, outputPath>>
    /\ UNCHANGED <<titleVars, galleryVars, exportVars, decodeVars, fetchVars, escapeVars>>

\* Migrate.run: outputPath = flags.output || defaultOutput
ChooseOutputPath ==
    /\ npc = "start"
    /\ Truthy(blogName)
    /\ outputPath' = IF Truthy(flagsOutput) THEN flagsOutput
                     ELSE DefaultOutput(blogName)
    /\ npc' = "chosen"
    /\ UNCHANGED <<blogName, flagsOutput>>
    /\ UNCHANGED <<titleVars, galleryVars, exportVars, decodeVars, fetchVars, escapeVars>>

NextName ==
    \/ NoBlogName
    \/ ChooseOutputPath

SpecName == InitName /\ [][NextName]_vars

\* the file name of a default output path: what stands between "./" and
\* ".json"
FileNameOf(path) == SubSeq(path, 3, Len(path) - 5)

\* C21: when no --output is given, the default output file is ./<name>.json
\* where <name> is the blog name without its .tumblr.com suffix, lowercased,
\* made of letters, digits and hyphens only, with no run of hyphens and no
\* hyphen at either end (johns_blog.tumblr.com gives ./johns-blog.json)
C21_DefaultOutputName ==
    (npc = "chosen" /\ ~Truthy(flagsOutput)) =>
        /\ Len(outputPath) >= 7
        /\ SubSeq(outputPath, 1, 2) = <<".", "/">>
        /\ SubSeq(outputPath, Len(outputPath) - 4, Len(outputPath))
               = <<".", "j", "s", "o", "n">>
        /\ \A i \in DOMAIN FileNameOf(outputPath) :
               /\ FileNameOf(outputPath)[i] \in Lowers \cup Digits \cup {"-"}
               /\ i > 1 => ~(FileNameOf(outputPath)[i-1] = "-"
                             /\ FileNameOf(outputPath)[i] = "-")
        /\ FileNameOf(outputPath) # <<>> =>
               /\ FileNameOf(outputPath)[1] # "-"
               /\ FileNameOf(outputPath)[Len(FileNameOf(outputPath))] # "-"
        /\ blogName = JohnsBlog \o TumblrSuffix =>
               FileNameOf(outputPath) = <<"j","o","h","n","s","-","b","l","o","g">>

-----------------------------------------------------------------------------

\* C22: every row emitted by gallery repacking holds 2 or 3 images, except
\* that the final row may hold a single image when there is no previous row
\* or the previous row already holds 3; no emitted row holds more than 3
\* images or is empty
C22_RowSizes ==
    \A k \in DOMAIN ghostRows :
        /\ Len(ghostRows[k]) \in 1..3
        /\ Len(ghostRows[k]) = 1 =>
               /\ gpc = "done"
               /\ k = Len(ghostRows)
               /\ k = 1 \/ Len(ghostRows[k-1]) = 3

\* a gallery of several rows is repacked, and a single image ends it after a
\* row of three
C22_Witness ==
    /\ gpc = "done"
    /\ Len(galleryRows) >= 2
    /\ Len(ghostRows) >= 2
    /\ Len(Last(ghostRows)) = 1
    /\ Len(ghostRows[Len(ghostRows) - 1]) = 3
    /\ \E k \in DOMAIN ghostRows : Len(ghostRows[k]) = 2

-----------------------------------------------------------------------------

\* whether s begins, or ends, with the string t
StartsWith(s, t) == Len(s) >= Len(t) /\ SubSeq(s, 1, Len(t)) = t
EndsWith(s, t) == Len(s) >= Len(t) /\ SubSeq(s, Len(s) - Len(t) + 1, Len(s)) = t

\* the text before the first row opens the output and the text after the last
\* row closes it, unless blank
EdgeTextKept(html, textBefore, textAfter) ==
    /\ Trim(textBefore) # <<>> => StartsWith(html, textBefore)
    /\ Trim(textAfter) # <<>> => EndsWith(html, textAfter)

\* one gallery block stands in the output when a row holds an image
OneGalleryBlock(html, rows) ==
    rows # <<>> => Cardinality({i \in 1..Len(html) : IsAt(html, i, FigureOpen)}) = 1

\* every text of the body is in the output: in the bodies drawn, a "T" stands
\* in the texts only, and in each of them
NoTextLost(html, body) == Count(html, "T") = Count(body, "T")

\* C23: in a body that contains gallery rows, the non-whitespace text before
\* the first row and after the last row both appear in the output, on either
\* side of the single reconstructed gallery block, and body text is left out
\* of the output only when it is empty or whitespace-only, the text lying
\* between two gallery rows included
C23_TextAroundGalleryKept ==
    (tpc = "done" /\ post \in GalleryPosts /\ ScanRowsFrom(post.body, 1) # <<>>) =>
        /\ EdgeTextKept(result.html,
                        TextBefore(post.body, ScanRowsFrom(post.body, 1)),
                        TextAfter(post.body, ScanRowsFrom(post.body, 1)))
        /\ OneGalleryBlock(result.html, GalleryRowsOf(post.body))
        /\ NoTextLost(result.html, post.body)

-----------------------------------------------------------------------------

\* C24: transformation is deterministic and independent of other posts:
\* transforming the same source post twice, at any position of the batch,
\* yields records that agree on every field, the synthesized identifiers
\* included
C24_TransformDeterministic ==
    Len(posts) = Len(tumblrPosts) =>
        \A i, j \in DOMAIN tumblrPosts :
            tumblrPosts[i] = tumblrPosts[j] => posts[i] = posts[j]

-----------------------------------------------------------------------------

\* C25: a source-data anomaly never raises an error: for a post of any type
\* with any subset of its optional fields absent or empty (no body, no photos
\* array or a photo without original_size, ...), transform returns a record
\* with a fallback fragment
C25_AnomalyNeverRaises ==
    /\ tpc # "failed"
    /\ tpc = "done" => Truthy(result.html)

-----------------------------------------------------------------------------
(* SpecEscape: the handlers of the quote, link, chat and answer posts, as   *)
(* written in the per-type PostTransformer (src/api/tumblr.ts 358-583)      *)

\* s.replace(/c/g, r)
ReplaceChar(s, c, r) ==
    Flatten([i \in 1..Len(s) |-> IF s[i] = c THEN r ELSE <<s[i]>>])

\* escapeHtml with the ampersand replaced last
EscapeHtmlAmpLast(text) ==
    ReplaceChar(ReplaceChar(ReplaceChar(ReplaceChar(ReplaceChar(text,
        "<", <<"&","l","t",";">>), ">", <<"&","g","t",";">>), "\"", <<"&","q","u","o","t",";">>), "'", <<"&","#","3","9",";">>), "&", <<"&","a","m","p",";">>)

EscapeHtml(text) ==
    ReplaceChar(ReplaceChar(ReplaceChar(ReplaceChar(ReplaceChar(text,
        "&", <<"&","a","m","p",";">>), "<", <<"&","l","t",";">>), ">", <<"&","g","t",";">>), "\"", <<"&","q","u","o","t",";">>), "'", <<"&","#","3","9",";">>)

\* x || fallback, for a string x
OrElse(x, fallback) == IF Truthy(x) THEN x ELSE fallback

ProcessQuotePost(tumblrPost) ==
    <<"<","b","l","o","c","k","q","u","o","t","e",">","<","p",">">> \o EscapeHtml(OrElse(tumblrPost.quote_text, <<>>)) \o <<"<","/","p",">">>
    \o (IF Truthy(tumblrPost.quote_source)
        THEN <<"<","c","i","t","e",">","U+2014"," ">> \o EscapeHtml(tumblrPost.quote_source) \o <<"<","/","c","i","t","e",">">>
        ELSE <<>>)
    \o <<"<","/","b","l","o","c","k","q","u","o","t","e",">">>

\* the description is left out: the posts drawn have no body
ProcessLinkPost(tumblrPost) ==
    <<"<","d","i","v"," ","c","l","a","s","s","=","\"","l","i","n","k","-","p","o","s","t","\"",">","<","h","3",">","<","a"," ","h","r","e","f","=","\"">> \o OrElse(tumblrPost.link_url, <<>>) \o <<"\"",">">>
    \o EscapeHtml(OrElse(tumblrPost.title, <<"L","i","n","k">>)) \o <<"<","/","a",">","<","/","h","3",">","<","/","d","i","v",">">>

ChatMessageHtml(message) ==
    <<"<","d","i","v"," ","c","l","a","s","s","=","\"","c","h","a","t","-","m","e","s","s","a","g","e","\"",">","<","s","p","a","n"," ","c","l","a","s","s","=","\"","c","h","a","t","-","n","a","m","e","\"",">">> \o EscapeHtml(message.name) \o <<":","<","/","s","p","a","n",">","<","s","p","a","n"," ","c","l","a","s","s","=","\"","c","h","a","t","-","t","e","x","t","\"",">">>
    \o EscapeHtml(message.phrase) \o <<"<","/","s","p","a","n",">","<","/","d","i","v",">">>

ProcessChatPost(tumblrPost) ==
    IF Len(tumblrPost.chat) = 0 THEN <<"<","p",">","N","o"," ","c","h","a","t"," ","c","o","n","t","e","n","t","<","/","p",">">>
    ELSE <<"<","d","i","v"," ","c","l","a","s","s","=","\"","c","h","a","t","-","p","o","s","t","\"",">">>
         \o Flatten([k \in 1..Len(tumblrPost.chat) |->
                        ChatMessageHtml(tumblrPost.chat[k])])
         \o <<"<","/","d","i","v",">">>

ProcessAnswerPost(tumblrPost) ==
    <<"<","d","i","v"," ","c","l","a","s","s","=","\"","a","n","s","w","e","r","-","p","o","s","t","\"",">">>
    \o (IF Truthy(tumblrPost.question)
        THEN <<"<","d","i","v"," ","c","l","a","s","s","=","\"","q","u","e","s","t","i","o","n","\"",">","<","s","t","r","o","n","g",">","Q",":"," ">> \o EscapeHtml(tumblrPost.question) \o <<"<","/","s","t","r","o","n","g",">","<","/","d","i","v",">">> ELSE <<>>)
    \o (IF Truthy(tumblrPost.answer)
        THEN <<"<","d","i","v"," ","c","l","a","s","s","=","\"","a","n","s","w","e","r","\"",">","<","s","t","r","o","n","g",">","A",":"," ">> \o EscapeHtml(tumblrPost.answer) \o <<"<","/","s","t","r","o","n","g",">","<","/","d","i","v",">">> ELSE <<>>)
    \o <<"<","/","d","i","v",">">>

TypeQuote == <<"q","u","o","t","e">>
TypeLink == <<"l","i","n","k">>
TypeChat == <<"c","h","a","t">>
TypeAnswer == <<"a","n","s","w","e","r">>

\* convertToHtml, the cases of the switch for these four types
ConvertToHtmlByType(tumblrPost) ==
    CASE tumblrPost.type = TypeQuote  -> ProcessQuotePost(tumblrPost)
      [] tumblrPost.type = TypeLink   -> ProcessLinkPost(tumblrPost)
      [] tumblrPost.type = TypeChat   -> ProcessChatPost(tumblrPost)
      [] tumblrPost.type = TypeAnswer -> ProcessAnswerPost(tumblrPost)

\* the most tokens a user-supplied text holds
MaxEscapeTokens == 2

EscapeTokens == { <<"&">>, <<"<">>, <<">">>, <<"\"">>, <<"'">>, <<"a">>,
                  <<"l","t",";">> }

\* the texts of the first field of a post, and those of its second field
UserTexts ==
    UNION {TokenStrings(EscapeTokens, n) : n \in 0..MaxEscapeTokens} \cup {<<>>}
OtherTexts == {Null, <<"<","'","b","'"," ","&"," ","\"","c","\"",">">>}

\* a post of one of the four types; a field its type does not use is absent,
\* and so is the body
TypedPost(type, one, two, chat) ==
    [ type |-> type,
      quote_text   |-> IF type = TypeQuote THEN one ELSE Null,
      quote_source |-> IF type = TypeQuote THEN two ELSE Null,
      title        |-> IF type = TypeLink THEN one ELSE Null,
      link_url     |-> IF type = TypeLink /\ two # Null THEN <<"u">> ELSE Null,
      question     |-> IF type = TypeAnswer THEN one ELSE Null,
      answer       |-> IF type = TypeAnswer THEN two ELSE Null,
      chat         |-> chat ]

InitEscape ==
    /\ \/ \E type \in {TypeQuote, TypeLink, TypeAnswer},
             one \in UserTexts, two \in OtherTexts :
                typedPost = TypedPost(type, one, two, <<>>)
       \/ typedPost = TypedPost(TypeChat, Null, Null, <<>>)
       \/ \E one \in UserTexts \ {Null}, two \in (OtherTexts \ {Null}) \cup {<<>>} :
             typedPost = TypedPost(TypeChat, Null, Null,
                                   <<[name |-> one, phrase |-> two]>>)
    /\ fragment = Null
    /\ xpc = "start"
    /\ TitleIdle
    /\ GalleryIdle
    /\ ExportIdle
    /\ DecodeIdle
    /\ FetchIdle
    /\ NameIdle

\* case 'quote': return this.processQuotePost(tumblrPost)
ConvertQuote ==
    /\ xpc = "start"
    /\ typedPost.type = TypeQuote
    /\ fragment' = ProcessQuotePost(typedPost)
    /\ xpc' = "done"
    /\ UNCHANGED <<typedPost, titleVars, galleryVars, exportVars, decodeVars, fetchVars, nameVars>>

\* case 'link': return this.processLinkPost(tumblrPost)
ConvertLink ==
    /\ xpc = "start"
    /\ typedPost.type = TypeLink
    /\ fragment' = ProcessLinkPost(typedPost)
    /\ xpc' = "done"
    /\ UNCHANGED <<typedPost, titleVars, galleryVars, exportVars, decodeVars, fetchVars, nameVars>>

\* case 'chat': return this.processChatPost(tumblrPost)
ConvertChat ==
    /\ xpc = "start"
    /\ typedPost.type = TypeChat
    /\ fragment' = ProcessChatPost(typedPost)
    /\ xpc' = "done"
    /\ UNCHANGED <<typedPost, titleVars, galleryVars, exportVars, decodeVars, fetchVars, nameVars>>

\* case 'answer': return this.processAnswerPost(tumblrPost)
ConvertAnswer ==
    /\ xpc = "start"
    /\ typedPost.type = TypeAnswer
    /\ fragment' = ProcessAnswerPost(typedPost)
    /\ xpc' = "done"
    /\ UNCHANGED <<typedPost, titleVars, galleryVars, exportVars, decodeVars, fetchVars, nameVars>>

NextEscape ==
    \/ ConvertQuote
    \/ ConvertLink
    \/ ConvertChat
    \/ ConvertAnswer

SpecEscape == InitEscape /\ [][NextEscape]_vars

-----------------------------------------------------------------------------

\* the characters escapeHtml replaces
SpecialChars == {"&", "<", ">", "\"", "'"}

\* a text with every such character turned into a letter
PlainText(text) ==
    IF text = Null THEN Null
    ELSE [i \in 1..Len(text) |-> IF text[i] \in SpecialChars THEN "a" ELSE text[i]]

\* a post with every user-supplied text made plain
PlainPost(tumblrPost) ==
    [ tumblrPost EXCEPT !.quote_text = PlainText(@), !.quote_source = PlainText(@),
                        !.title = PlainText(@), !.question = PlainText(@),
                        !.answer = PlainText(@),
                        !.chat = [k \in 1..Len(@) |->
                                    [name   |-> PlainText(@[k].name),
                                     phrase |-> PlainText(@[k].phrase)]] ]

\* the user-supplied texts of a post, one after the other
InterpolatedText(tumblrPost) ==
    OrElse(tumblrPost.quote_text, <<>>) \o OrElse(tumblrPost.quote_source, <<>>)
    \o OrElse(tumblrPost.title, <<>>) \o OrElse(tumblrPost.question, <<>>)
    \o OrElse(tumblrPost.answer, <<>>)
    \o Flatten([k \in 1..Len(tumblrPost.chat) |->
                   tumblrPost.chat[k].name \o tumblrPost.chat[k].phrase])

\* how many times pat occurs in s
Occurrences(s, pat) == Cardinality({i \in 1..Len(s) : IsAt(s, i, pat)})

\* the markup holds no more < > " ' than the same markup around plain texts
NoRawSpecial(html, plainHtml) ==
    \A c \in SpecialChars \ {"&"} : Count(html, c) = Count(plainHtml, c)

\* every special character of the texts stands in the markup as its entity,
\* and every & of the markup begins one of these entities
EachAsEntity(html, text) ==
    /\ Occurrences(html, <<"&","a","m","p",";">>) = Count(text, "&")
    /\ Occurrences(html, <<"&","l","t",";">>) = Count(text, "<")
    /\ Occurrences(html, <<"&","g","t",";">>) = Count(text, ">")
    /\ Occurrences(html, <<"&","q","u","o","t",";">>) = Count(text, "\"")
    /\ Occurrences(html, <<"&","#","3","9",";">>) = Count(text, "'")
    /\ Count(html, "&") = Cardinality({i \in 1..Len(text) : text[i] \in SpecialChars})

\* C26: user-supplied text interpolated into generated markup (quote text and
\* source, chat speaker and phrase, link title, question and answer) is
\* HTML-escaped: the characters & < > " ' of that text never appear raw in the
\* emitted fragment, each being replaced by its entity, with & replaced first
\* so that the generated entities are not escaped a second time
C26_UserTextEscaped ==
    xpc = "done" =>
        /\ NoRawSpecial(fragment, ConvertToHtmlByType(PlainPost(typedPost)))
        /\ EachAsEntity(fragment, InterpolatedText(typedPost))

\* a quote whose text is "&lt;" and whose source holds all five characters
\* has been converted
C26_Witness ==
    /\ xpc = "done"
    /\ typedPost.type = TypeQuote
    /\ typedPost.quote_text = <<"&","l","t",";">>
    /\ Truthy(typedPost.quote_source)
    /\ Occurrences(fragment, <<"&","a","m","p",";","l","t",";">>) = 1

-----------------------------------------------------------------------------

\* the stage a run of SpecFetch is in: 1 fetch, 2 transform done, 3 document
\* assembled and validated, 4 file written
Stage ==
    IF ~RunTransformed THEN 1
    ELSE IF epc \in {"idle", "export"} THEN 2
    ELSE IF epc \in {"ensureDir", "writeJson"} THEN 3
    ELSE IF epc = "done" THEN 4
    ELSE IF outFile.state # "absent" THEN 4
    ELSE 3

\* what each stage has, and has not yet, produced
StageProducts ==
    /\ ~FetchReturned => fpc \in {"loop", "await", "delay"}
    /\ Stage = 1 => posts = <<>> /\ tumblrPosts = <<>> /\ epc = "idle"
    /\ Stage <= 2 => exportData = Null /\ outFile = NoFile /\ thrown \in {Null, IoError}
    /\ Stage >= 2 =>
          /\ FetchReturned
          /\ tumblrPosts = fetchedPosts
          /\ Len(posts) = Len(fetchedPosts)
    /\ Stage >= 3 => Len(exportData.data.posts) = Len(posts)
    /\ outFile.state # "absent" =>
          /\ Stage = 4
          /\ ValidateExport(exportData) = Null
          /\ outFile.data = exportData

\* C27: the pipeline stages run strictly in the order fetch, transform,
\* assemble, validate, write and never re-enter an earlier stage: no post is
\* transformed before fetchAllPosts has returned, the export document is
\* assembled only after every post has been transformed, and the file is
\* written only after validation
C27_StagesInOrder ==
    /\ []StageProducts
    /\ [][ /\ Stage' >= Stage
           /\ FetchReturned => (FetchReturned' /\ fetchedPosts' = fetchedPosts)
           /\ RunTransformed => posts' = posts
           /\ Stage >= 3 => exportData' = exportData ]_vars

\* a run has gone through every stage: a request was made, fetchAllPosts
\* returned, the posts were transformed, the document was assembled and
\* validated, and the file is written
C27_Witness ==
    /\ Len(requests) >= 1
    /\ Stage = 4
    /\ epc = "done"
    /\ outFile.state = "complete"

-----------------------------------------------------------------------------

\* the ids of the entities of a collection
IdsOf(entities) == {entities[k].id : k \in DOMAIN entities}

\* every posts_tags row names a post and a tag of the document
PostsTagsClosed(data) ==
    \A k \in DOMAIN data.posts_tags :
        /\ data.posts_tags[k].post_id \in IdsOf(data.posts)
        /\ data.posts_tags[k].tag_id \in IdsOf(data.tags)

\* every posts_authors row names a post and a user of the document, the user
\* id being defined, and every post has as many rows as the document holds
\* posts of its id
PostsAuthorsClosed(data) ==
    /\ \A k \in DOMAIN data.posts_authors :
          /\ data.posts_authors[k].post_id \in IdsOf(data.posts)
          /\ data.posts_authors[k].author_id # Undefined
          /\ data.posts_authors[k].author_id \in IdsOf(data.users)
    /\ \A p \in DOMAIN data.posts :
          Cardinality({k \in DOMAIN data.posts_authors :
                          data.posts_authors[k].post_id = data.posts[p].id})
              = Cardinality({q \in DOMAIN data.posts : data.posts[q].id = data.posts[p].id})

\* every roles_users row names a role and a user of the document
RolesUsersClosed(data) ==
    \A k \in DOMAIN data.roles_users :
        /\ data.roles_users[k].role_id \in IdsOf(data.roles)
        /\ data.roles_users[k].user_id \in IdsOf(data.users)

\* C28: the join tables of the assembled document are referentially closed
\* and have one row per pair: every posts_tags row names a post id of
\* data.posts and a tag id of data.tags, every posts_authors row names a post
\* id of data.posts and a defined user id of data.users with exactly one row
\* per post, and every roles_users row names a role id of data.roles and a
\* user id of data.users
C28_JoinTablesClosed ==
    MigrateAssembled =>
        /\ PostsTagsClosed(exportData.data)
        /\ PostsAuthorsClosed(exportData.data)
        /\ RolesUsersClosed(exportData.data)

-----------------------------------------------------------------------------

\* the steps of fetchAllPosts
FetchLoop ==
    \/ FetchRequest
    \/ FetchLimitReached
    \/ FetchPage
    \/ FetchLastPage
    \/ FetchEmptyPage
    \/ FetchFails
    \/ FetchDelay

\* fetchAllPosts goes on as long as it can: each of its awaits settles (the
\* HTTP client has a timeout of 30000 ms, and the timer of delay fires)
SpecFetchLive == SpecFetch /\ WF_vars(FetchLoop)

\* an answer either ends the loop or counts at least one post more
IterationProgress ==
    fpc = "await" =>
        \/ fpc' = "returned"
        \/ fpc' = "delay" /\ totalFetched' > totalFetched

\* C29: fetchAllPosts terminates for every sequence of server responses and
\* every limit >= 0: each loop iteration either leaves the loop (empty page,
\* missing next cursor, request error) or strictly increases the fetched-post
\* counter, so at most limit requests are made, and limit = 0 makes none
C29_FetchTerminates ==
    /\ [](Len(requests) <= fetchLimit)
    /\ [](fpc = "loop" => Len(requests) <= totalFetched)
    /\ [][IterationProgress]_vars
    /\ <>FetchReturned

\* a fetch of limit 3 has ended after three requests, each answered by one post
C29_Witness ==
    /\ FetchReturned
    /\ fetchLimit = 3
    /\ Len(requests) = 3
    /\ \A k \in 1..3 : requests[k].count = 1
    /\ totalFetched = 3

-----------------------------------------------------------------------------

\* C30: page requests of one fetchAllPosts call never overlap and are
\* rate-limited: every request after the first is issued only after the
\* previous response was received and a full 1000 ms delay has elapsed, and
\* each such request carries the `before` cursor taken from the previous
\* response's next link (the first request carries none)
C30_RequestsSpacedAndChained ==
    /\ \A k \in DOMAIN requests :
          /\ requests[k].outcome = "pending" => (k = Len(requests) /\ fpc = "await")
          /\ k = 1 => requests[k].before = {}
          /\ k > 1 =>
                /\ requests[k-1].outcome = "page"
                /\ requests[k-1].waited >= 1000
                /\ requests[k-1].next # {}
                /\ requests[k].before = requests[k-1].next
    /\ fpc = "await" => (requests # <<>> /\ Last(requests).outcome = "pending")

\* three requests were made, the second and the third carrying the different
\* cursors of the two pages received before them
C30_Witness ==
    /\ Len(requests) = 3
    /\ requests[3].outcome # "pending"
    /\ requests[2].before # requests[3].before
    /\ requests[1].next = requests[2].before

=============================================================================
